---- MODULE Spec2Model ----
(***************************************************************************)
(* Auto Link Suggestions (Obsidian plugin): the note-title index kept by   *)
(* NoteTitleSuggester, the trigger / query extraction, the matcher and its *)
(* usage-based ranking, and the usage statistics of                        *)
(* AutoLinkSuggestionsPlugin, modelled from src/unnamed/part_000 (the      *)
(* variant with recency, decay and newness scoring, lines 452-1083).       *)
(*                                                                         *)
(* Strings are sequences of one-character strings.  A path is a record     *)
(* [base, ext]: TFile.basename and TFile.extension.  A TFile is an object  *)
(* with identity (FileIds): the host mutates its path on rename and the    *)
(* index stores references to it, so files[f] is the object's current      *)
(* content and noteTitles holds <<key, object id>> pairs in Map insertion  *)
(* order.  Scores are exact rationals <<numerator, denominator>>.          *)
(***************************************************************************)
EXTENDS Integers, Sequences, FiniteSets, TLC

VARIABLES
    files,        \* FileId -> TFile object: [st, path, ctime, aliases]
    noteTitles,   \* NoteTitleSuggester.noteTitles: Map<string, TFile>, as a sequence of entries
    usageStats,   \* AutoLinkSuggestionsPlugin.usageStats: path -> [count, lastUsed]
    settings,     \* AutoLinkSuggestionsPlugin.settings
    now,          \* Date.now(), in clock ticks
    line,         \* the editor line the cursor is on
    cursor,       \* cursor.ch
    context,      \* EditorSuggest.context: the last trigger info, or NoContext
    suggestions,  \* the list getSuggestions returned to the popup
    persisted,    \* the blob last handed to saveData
    lastEvent,    \* the notification or callback processed last
    selHist,      \* history: path -> selections recorded since the path last had no record
    saved,        \* the saveData call of the last handler: "none", "ok" or "failed"
    unhandled,    \* a promise of saveSettings was rejected and no handler was attached
    console       \* the messages written to the console

vars == <<files, noteTitles, usageStats, settings, now, line, cursor, context,
          suggestions, persisted, lastEvent, selHist, saved, unhandled, console>>

----------------------------------------------------------------------------
(* Bounds of the model *)

MaxFiles == 2        \* TFile objects held at one time (in the vault or by the index)
MaxTime == 2         \* the clock runs from 1 to MaxTime
MaxLineLen == 4      \* length of the editor lines of SpecTrigger

FileIds == 1 .. MaxFiles

----------------------------------------------------------------------------
(* Strings *)

Lower(c) == IF c = "A" THEN "a" ELSE IF c = "B" THEN "b" ELSE c

\* String.prototype.toLowerCase
toLowerCase(s) == [i \in 1 .. Len(s) |-> Lower(s[i])]

\* /\S/.test(c): c is not a whitespace character
NonWhitespace(c) == c # " "

\* s.substring(from, to) with 0-based from (inclusive) and to (exclusive)
substring(s, from, to) == [i \in 1 .. (to - from) |-> s[from + i]]

\* does pat occur in s at 0-based offset k
OccursAt(s, pat, k) ==
    /\ k + Len(pat) <= Len(s)
    /\ \A i \in 1 .. Len(pat) : s[k + i] = pat[i]

\* String.prototype.startsWith
startsWith(s, pat) == OccursAt(s, pat, 0)

\* String.prototype.includes
includes(s, pat) == \E k \in 0 .. Len(s) : OccursAt(s, pat, k)

RECURSIVE CountFrom(_, _, _)
\* number of matches of a global regex for the literal pat in s, scanning from
\* offset k: leftmost match first, the scan resumes after the match
CountFrom(s, pat, k) ==
    IF k + Len(pat) > Len(s) THEN 0
    ELSE IF OccursAt(s, pat, k) THEN 1 + CountFrom(s, pat, k + Len(pat))
    ELSE CountFrom(s, pat, k + 1)

\* (s.match(/pat/g) || []).length
MatchCount(s, pat) == CountFrom(s, pat, 0)

----------------------------------------------------------------------------
(* Exact arithmetic on the scores: a rational is <<n, d>> with d > 0, kept in
   lowest terms *)

RECURSIVE GCD(_, _)
GCD(a, b) == IF b = 0 THEN a ELSE GCD(b, a % b)

Abs(x) == IF x < 0 THEN -x ELSE x

Rat(n, d) ==
    LET g == GCD(Abs(n), Abs(d))
        s == IF d < 0 THEN -1 ELSE 1
    IN  IF n = 0 THEN <<0, 1>> ELSE <<s * (n \div g), s * (d \div g)>>

RInt(n) == <<n, 1>>

\* the operations divide by common factors before they multiply, which keeps
\* the intermediate products small
RAdd(a, b) ==
    LET g == GCD(a[2], b[2])
    IN  Rat(a[1] * (b[2] \div g) + b[1] * (a[2] \div g), (a[2] \div g) * b[2])
RSub(a, b) == RAdd(a, <<-b[1], b[2]>>)
RMul(a, b) ==
    LET x == Rat(a[1], b[2])
        y == Rat(b[1], a[2])
    IN  Rat(x[1] * y[1], x[2] * y[2])
RDiv(a, b) == RMul(a, Rat(b[2], b[1]))
RLess(a, b) ==
    LET g == GCD(a[2], b[2])
    IN  a[1] * (b[2] \div g) < b[1] * (a[2] \div g)
RLeq(a, b) == ~RLess(b, a)
RMax(a, b) == IF RLess(a, b) THEN b ELSE a
RMin(a, b) == IF RLess(b, a) THEN b ELSE a

----------------------------------------------------------------------------
(* Files, paths and front matter *)

MD == "md"

\* file.extension === 'md'
IsNote(p) == p.ext = MD

\* a TFolder is no TFile and has no extension: its ext is the mark Folder
Folder == "folder"

\* file instanceof TFile
IsTFile(p) == p.ext # Folder

NoPath == [base |-> <<>>, ext |-> ""]

\* frontmatter.aliases: absent, one string, a list of items, or some other value
NoAliases == [kind |-> "none"]
AliasStr(s) == [kind |-> "str", val |-> s]
AliasList(l) == [kind |-> "list", val |-> l]
AliasOther == [kind |-> "other"]

\* a file object slot that holds no object
Free == [st |-> "free", path |-> NoPath, ctime |-> 0, aliases |-> NoAliases]

Alive(f) == files[f].st = "alive"

\* the paths that name a file of the vault
VaultPaths == {files[f].path : f \in {g \in DOMAIN files : Alive(g)}}

\* vault.getMarkdownFiles(), in object order
RECURSIVE MarkdownFilesFrom(_, _)
MarkdownFilesFrom(fs, f) ==
    IF f \notin DOMAIN fs THEN <<>>
    ELSE (IF fs[f].st = "alive" /\ IsNote(fs[f].path) THEN <<f>> ELSE <<>>)
         \o MarkdownFilesFrom(fs, f + 1)

getMarkdownFiles(fs) == MarkdownFilesFrom(fs, 1)

\* metadataCache.getFileCache(file)?.frontmatter?.aliases: the cache holds the
\* files of the vault only
CachedAliases(f) == IF Alive(f) THEN files[f].aliases ELSE NoAliases

----------------------------------------------------------------------------
(* Map<string, TFile> as a sequence of entries in insertion order *)

Keys(m) == {m[i].key : i \in 1 .. Len(m)}

HasKey(m, k) == k \in Keys(m)

\* Map.prototype.set: a present key keeps its position and takes the value, a
\* new key is appended
MapSet(m, k, f) ==
    IF HasKey(m, k)
    THEN [i \in 1 .. Len(m) |-> IF m[i].key = k THEN [key |-> k, file |-> f] ELSE m[i]]
    ELSE Append(m, [key |-> k, file |-> f])

\* Map.prototype.delete
MapDelete(m, k) == SelectSeq(m, LAMBDA e : e.key # k)

RECURSIVE IndexFrom(_, _)
IndexFrom(fs, ids) ==
    IF ids = <<>> THEN <<>>
    ELSE MapSet(IndexFrom(fs, SubSeq(ids, 1, Len(ids) - 1)),
                fs[ids[Len(ids)]].path, ids[Len(ids)])

\* indexVaultTitles: clear, then set(file.path, file) for each markdown file
indexVaultTitles(fs) == IndexFrom(fs, getMarkdownFiles(fs))

----------------------------------------------------------------------------
(* Settings *)

DEFAULT_SETTINGS ==
    [minTriggerLength |-> 2, maxSuggestions |-> 10, caseSensitive |-> FALSE,
     matchStart |-> FALSE, includeAliases |-> TRUE, showPath |-> FALSE,
     enableUsageRanking |-> TRUE, enableRecencyBoost |-> TRUE,
     recencyWeight |-> 30, decayDays |-> 90, enableNewnessBoost |-> TRUE,
     newnessBoostDays |-> 30, newnessBoostStrength |-> <<1, 2>>]

\* dayInMs = 24 * 60 * 60 * 1000: the model's clock ticks DayInMs times a day
DayInMs == 2

----------------------------------------------------------------------------
(* onTrigger *)

NoContext == [kind |-> "none"]

RECURSIVE WordStart(_, _)
\* while (wordStart > 0 && /\S/.test(line[wordStart - 1])) wordStart--
WordStart(l, ws) ==
    IF ws > 0 /\ NonWhitespace(l[ws]) THEN WordStart(l, ws - 1) ELSE ws

LinkOpen == <<"[", "[">>
LinkClose == <<"]", "]">>

\* a link-count check that also refuses a line whose links are all closed
InsideLinkOrBalanced(beforeCursor) ==
    MatchCount(beforeCursor, LinkOpen) >= MatchCount(beforeCursor, LinkClose)
    /\ MatchCount(beforeCursor, LinkOpen) > 0

\* if (linkOpenCount > linkCloseCount) return null
InsideLink(beforeCursor) ==
    MatchCount(beforeCursor, LinkOpen) > MatchCount(beforeCursor, LinkClose)

\* onTrigger after its scan loop, which has left wordStart
triggerFrom(l, cursorPos, wordStart, stg) ==
    LET currentWord == substring(l, wordStart, cursorPos)
        beforeCursor == substring(l, 0, cursorPos)
    IN  IF Len(currentWord) < stg.minTriggerLength THEN NoContext
        ELSE IF InsideLink(beforeCursor) THEN NoContext
        ELSE [kind |-> "trigger", start |-> wordStart, end |-> cursorPos,
              query |-> currentWord]

onTrigger(l, cursorPos, stg) == triggerFrom(l, cursorPos, WordStart(l, cursorPos), stg)

----------------------------------------------------------------------------
(* getSuggestions: the matcher *)

\* a match test that ignores the matchStart setting
MatchesAnywhere(text, query, stg) ==
    LET compare == IF stg.caseSensitive THEN text ELSE toLowerCase(text)
    IN  includes(compare, query)

\* the comparison of one title or alias with the folded query
Matches(text, query, stg) ==
    LET compare == IF stg.caseSensitive THEN text ELSE toLowerCase(text)
    IN  IF stg.matchStart THEN startsWith(compare, query) ELSE includes(compare, query)

\* const query = settings.caseSensitive ? context.query : context.query.toLowerCase()
FoldQuery(q, stg) == IF stg.caseSensitive THEN q ELSE toLowerCase(q)

\* if (cache?.frontmatter?.aliases): absent and the empty string are falsy;
\* Array.isArray(aliases) ? aliases : [aliases]
AliasItems(a) ==
    IF a.kind = "none" THEN <<>>
    ELSE IF a.kind = "str" /\ a.val = <<>> THEN <<>>
    ELSE IF a.kind = "list" THEN a.val
    ELSE <<a>>

RECURSIVE AliasMatchesUntilNonString(_, _, _, _)
\* an alias loop that gives up at the first entry that is not a string
AliasMatchesUntilNonString(items, f, query, stg) ==
    IF items = <<>> \/ items[1].kind # "str" THEN <<>>
    ELSE (IF Matches(items[1].val, query, stg)
          THEN <<[title |-> items[1].val, file |-> f]>> ELSE <<>>)
         \o AliasMatchesUntilNonString(Tail(items), f, query, stg)

RECURSIVE AliasMatches(_, _, _, _)
\* for (const alias of aliases) if (typeof alias === 'string') ... push({title: alias, file})
AliasMatches(items, f, query, stg) ==
    IF items = <<>> THEN <<>>
    ELSE (IF items[1].kind = "str" /\ Matches(items[1].val, query, stg)
          THEN <<[title |-> items[1].val, file |-> f]>> ELSE <<>>)
         \o AliasMatches(Tail(items), f, query, stg)

\* the candidates one index entry contributes: its title, then its aliases
FileMatches(f, query, stg) ==
    LET title == files[f].path.base
    IN  (IF Matches(title, query, stg) THEN <<[title |-> title, file |-> f]>> ELSE <<>>)
        \o (IF stg.includeAliases
            THEN AliasMatches(AliasItems(CachedAliases(f)), f, query, stg)
            ELSE <<>>)

RECURSIVE MatchAll(_, _, _)
\* for (const file of this.noteTitles.values())
MatchAll(m, query, stg) ==
    IF m = <<>> THEN <<>>
    ELSE FileMatches(m[1].file, query, stg) \o MatchAll(Tail(m), query, stg)

\* the candidate list before sorting and truncation
Candidates(q, stg) == MatchAll(noteTitles, FoldQuery(q, stg), stg)

----------------------------------------------------------------------------
(* getSuggestions: the ranking *)

Undefined == [kind |-> "undefined"]

\* usageStats[suggestion.file.path]
StatsOf(sug) ==
    LET p == files[sug.file].path
    IN  IF p \in DOMAIN usageStats THEN usageStats[p] ELSE Undefined

HasStats(stats) == stats # Undefined

\* NaN, the value of Math.max(n, undefined) and of undefined + 1, encoded below
\* every count: NaN > 0 is false, as it is in JavaScript
NotANumber == -1

\* stats.count where a number is needed: a missing field is undefined, which
\* converts to NaN
CountField(stats) == IF "count" \in DOMAIN stats THEN stats.count ELSE NotANumber

\* Math.max(a, b)
MathMax(a, b) ==
    IF a = NotANumber \/ b = NotANumber THEN NotANumber ELSE IF a < b THEN b ELSE a

\* stats?.lastUsed && stats.lastUsed > 0 (false for a missing field)
WasUsed(stats) == HasStats(stats) /\ "lastUsed" \in DOMAIN stats /\ stats.lastUsed > 0

\* a recency value that grows with the time since the last use
RecencyValueInverted(stats) == Rat((now - stats.lastUsed) + 1, 1)

\* 1 / (timeSinceUse + 1)
RecencyValue(stats) == Rat(1, (now - stats.lastUsed) + 1)

RECURSIVE MaxCountOf(_)
\* maxCount = Math.max(maxCount, stats.count) over the candidates with a record
MaxCountOf(sugs) ==
    IF sugs = <<>> THEN 0
    ELSE LET rest == MaxCountOf(Tail(sugs))
             stats == StatsOf(sugs[1])
         IN  IF HasStats(stats) THEN MathMax(rest, CountField(stats)) ELSE rest

RECURSIVE MaxRecencyOf(_)
\* maxRecency = Math.max(maxRecency, 1 / (timeSinceUse + 1)) over the candidates
\* with a record whose lastUsed > 0
MaxRecencyOf(sugs) ==
    IF sugs = <<>> THEN RInt(0)
    ELSE LET rest == MaxRecencyOf(Tail(sugs))
             stats == StatsOf(sugs[1])
         IN  IF WasUsed(stats) THEN RMax(rest, RecencyValue(stats)) ELSE rest

Half == <<1, 2>>
ScoreFloor == <<1, 100>>

FrequencyScore(stats, maxCount) ==
    IF HasStats(stats) /\ maxCount > 0 THEN Rat(CountField(stats), maxCount) ELSE RInt(0)

RecencyScore(stats, maxRecency, stg) ==
    IF stg.enableRecencyBoost /\ WasUsed(stats)
    THEN (IF RLess(RInt(0), maxRecency) THEN RDiv(RecencyValue(stats), maxRecency)
          ELSE RInt(0))
    ELSE RInt(0)

\* a decay that keeps falling after the second period
DecayFactorNoFloor(stats, stg) ==
    LET decayThreshold == stg.decayDays * DayInMs
        timeSinceUse == now - stats.lastUsed
    IN  IF WasUsed(stats) /\ timeSinceUse > decayThreshold
        THEN RSub(RInt(1), RMul(Rat(timeSinceUse - decayThreshold, decayThreshold), Half))
        ELSE RInt(1)

DecayFactor(stats, stg) ==
    LET decayThreshold == stg.decayDays * DayInMs
        timeSinceUse == now - stats.lastUsed
    IN  IF WasUsed(stats) /\ timeSinceUse > decayThreshold
        THEN LET decayRatio == RMin(Rat(timeSinceUse - decayThreshold, decayThreshold),
                                    RInt(1))
             IN  RSub(RInt(1), RMul(decayRatio, Half))
        ELSE RInt(1)

BaseScore(stats, maxCount, maxRecency, stg) ==
    LET recencyWeightFraction == Rat(stg.recencyWeight, 100)
        frequencyWeightFraction == RSub(RInt(1), recencyWeightFraction)
    IN  IF stg.enableRecencyBoost
        THEN RAdd(RMul(FrequencyScore(stats, maxCount), frequencyWeightFraction),
                  RMul(RecencyScore(stats, maxRecency, stg), recencyWeightFraction))
        ELSE FrequencyScore(stats, maxCount)

\* a newness boost that is not limited to the first newnessBoostDays days
NewnessBoostNoWindow(f, stg) ==
    LET ctime == files[f].ctime
        daysSinceCreation == Rat(now - ctime, DayInMs)
    IN  IF stg.enableNewnessBoost /\ ctime # 0
        THEN LET boostFactor ==
                     RSub(RInt(1), RDiv(daysSinceCreation, RInt(stg.newnessBoostDays)))
             IN  RAdd(RInt(1), RMul(boostFactor, stg.newnessBoostStrength))
        ELSE RInt(1)

NewnessBoost(f, stg) ==
    LET ctime == files[f].ctime
        daysSinceCreation == Rat(now - ctime, DayInMs)
    IN  IF stg.enableNewnessBoost /\ ctime # 0
           /\ RLeq(daysSinceCreation, RInt(stg.newnessBoostDays))
        THEN LET boostFactor ==
                     RSub(RInt(1), RDiv(daysSinceCreation, RInt(stg.newnessBoostDays)))
             IN  RAdd(RInt(1), RMul(boostFactor, stg.newnessBoostStrength))
        ELSE RInt(1)

\* a score without the floor for a base score of 0
calculateScoreNoFloor(stats, f, maxCount, maxRecency, stg) ==
    RMul(RMul(BaseScore(stats, maxCount, maxRecency, stg), DecayFactor(stats, stg)),
         NewnessBoost(f, stg))

calculateScore(stats, f, maxCount, maxRecency, stg) ==
    LET baseScore == BaseScore(stats, maxCount, maxRecency, stg)
        effectiveBaseScore == IF RLess(RInt(0), baseScore) THEN baseScore ELSE ScoreFloor
    IN  RMul(RMul(effectiveBaseScore, DecayFactor(stats, stg)), NewnessBoost(f, stg))

\* scores whose maxima are taken over every note of the index
ScoresOfWholeCorpus(sugs, stg) ==
    LET maxCount == MaxCountOf(MatchAll(noteTitles, <<>>, stg))
        maxRecency == MaxRecencyOf(MatchAll(noteTitles, <<>>, stg))
    IN  [i \in 1 .. Len(sugs) |->
            calculateScore(StatsOf(sugs[i]), sugs[i].file, maxCount, maxRecency, stg)]

\* the scores the sort comparator computes for the candidates of the list sugs,
\* with the maxima taken over that list
ScoresOf(sugs, stg) ==
    LET maxCount == MaxCountOf(sugs)
        maxRecency == MaxRecencyOf(sugs)
    IN  [i \in 1 .. Len(sugs) |->
            calculateScore(StatsOf(sugs[i]), sugs[i].file, maxCount, maxRecency, stg)]

\* a position that puts candidates of equal score in reverse order
RankInUnstable(score, i) ==
    1 + Cardinality({j \in DOMAIN score :
                        RLess(score[i], score[j]) \/ (score[j] = score[i] /\ j > i)})

\* the position candidate i takes when the list is sorted by descending score,
\* candidates of equal score keeping their order
RankIn(score, i) ==
    1 + Cardinality({j \in DOMAIN score :
                        RLess(score[i], score[j]) \/ (score[j] = score[i] /\ j < i)})

\* suggestions.sort((a, b) => bScore - aScore): descending by score, and stable
SortByScore(sugs, stg) ==
    LET score == ScoresOf(sugs, stg)
        pos == [i \in DOMAIN score |-> RankIn(score, i)]
    IN  [k \in 1 .. Len(sugs) |-> sugs[CHOOSE i \in DOMAIN pos : pos[i] = k]]

\* suggestions.slice(0, settings.maxSuggestions)
Slice(s, n) == SubSeq(s, 1, IF n < Len(s) THEN n ELSE Len(s))

\* a ranking that sorts whatever the enableUsageRanking setting is
RankedAlways(q, stg) == SortByScore(Candidates(q, stg), stg)

Ranked(q, stg) ==
    IF stg.enableUsageRanking THEN SortByScore(Candidates(q, stg), stg)
    ELSE Candidates(q, stg)

\* a getSuggestions that truncates the candidate list before ranking it
getSuggestionsTruncateFirst(q, stg) ==
    LET cut == Slice(Candidates(q, stg), stg.maxSuggestions)
    IN  IF stg.enableUsageRanking THEN SortByScore(cut, stg) ELSE cut

getSuggestions(q, stg) == Slice(Ranked(q, stg), stg.maxSuggestions)

----------------------------------------------------------------------------
(* AutoLinkSuggestionsPlugin: the usage statistics *)

\* the keys of usageStats whose value is truthy: if (this.usageStats[filePath])
HasRecord(us, p) == p \in DOMAIN us

\* the count on record for p, 0 without a record
CountOf(us, p) == IF HasRecord(us, p) THEN CountField(us[p]) ELSE 0

\* count++: NaN for a count that is undefined or NaN
Incremented(c) == IF c = NotANumber THEN NotANumber ELSE c + 1

Restrict(us, keys) == [q \in keys |-> us[q]]

\* saveSettings: saveData({settings, usageStats})
SavedBlob(stg, us) == [settings |-> stg, usageStats |-> us]

\* a trackNoteSelection that stamps lastUsed on the first selection only
trackNoteSelectionFirstTime(us, p, t) ==
    LET old == IF HasRecord(us, p) THEN us[p] ELSE [count |-> 0, lastUsed |-> t]
    IN  [q \in DOMAIN us \cup {p} |->
            IF q = p THEN [count |-> old.count + 1, lastUsed |-> old.lastUsed] ELSE us[q]]

\* trackNoteSelection, with t the value of Date.now()
trackNoteSelection(us, p, t) ==
    LET old == IF HasRecord(us, p) THEN us[p] ELSE [count |-> 0, lastUsed |-> 0]
    IN  [q \in DOMAIN us \cup {p} |->
            IF q = p THEN [count |-> Incremented(CountField(old)), lastUsed |-> t]
            ELSE us[q]]

\* cleanupUsageStats
cleanupUsageStats(us, p) ==
    IF HasRecord(us, p) THEN Restrict(us, DOMAIN us \ {p}) ELSE us

\* updateUsageStatsPath: usageStats[newPath] = usageStats[oldPath]; delete usageStats[oldPath]
updateUsageStatsPath(us, oldPath, newPath) ==
    IF HasRecord(us, oldPath)
    THEN LET assigned == [q \in DOMAIN us \cup {newPath} |->
                             IF q = newPath THEN us[oldPath] ELSE us[q]]
         IN  Restrict(assigned, DOMAIN assigned \ {oldPath})
    ELSE us

\* console.log('Loading Auto Link Suggestions plugin')
LoadingMessage == "Loading Auto Link Suggestions plugin"

\* a call of saveSettings that stores the statistics as they were before the
\* handler changed them
SavesBeforeChange(wrote, ok, stg, us) ==
    /\ persisted' = IF wrote /\ ok THEN SavedBlob(stg, usageStats) ELSE persisted
    /\ saved' = IF ~wrote THEN "none" ELSE IF ok THEN "ok" ELSE "failed"
    /\ unhandled' = IF wrote /\ ~ok THEN TRUE ELSE unhandled
    /\ console' = console

\* a handler's call of saveSettings, when it makes one (wrote): saveData stores
\* the blob or fails (ok); the promise saveSettings returns is dropped by the
\* caller, so a rejection of it finds no handler; nothing is written to the
\* console
Saves(wrote, ok, stg, us) ==
    /\ persisted' = IF wrote /\ ok THEN SavedBlob(stg, us) ELSE persisted
    /\ saved' = IF ~wrote THEN "none" ELSE IF ok THEN "ok" ELSE "failed"
    /\ unhandled' = IF wrote /\ ~ok THEN TRUE ELSE unhandled
    /\ console' = console

\* a step that calls no handler of the plugin that saves
NoSave == saved' = "none" /\ UNCHANGED <<persisted, unhandled, console>>

----------------------------------------------------------------------------
(* NoteTitleSuggester: the index listeners (registerVaultListeners) *)

\* a create handler that indexes every file and folder
IndexOnCreateAnyFile(m, f, p) == MapSet(m, p, f)

\* on('create'): if (file instanceof TFile && file.extension === 'md') set(file.path, file)
IndexOnCreate(m, f, p) == IF IsTFile(p) /\ IsNote(p) THEN MapSet(m, p, f) ELSE m

\* a rename handler that inserts the new key and forgets to delete the old one
IndexOnRenameKeepsOld(m, f, oldPath, newPath) ==
    IF IsNote(newPath) THEN MapSet(m, newPath, f) ELSE m

\* on('rename'): if (file instanceof TFile && file.extension === 'md')
\*               { delete(oldPath); set(file.path, file) }
IndexOnRename(m, f, oldPath, newPath) ==
    IF IsTFile(newPath) /\ IsNote(newPath) THEN MapSet(MapDelete(m, oldPath), newPath, f)
    ELSE m

\* on('delete'): if (file instanceof TFile) delete(file.path)
IndexOnDelete(m, p) == IF IsTFile(p) THEN MapDelete(m, p) ELSE m

----------------------------------------------------------------------------
(* AutoLinkSuggestionsPlugin: the usage-statistics listeners (onload) *)

\* on('delete'): if (file instanceof TFile) cleanupUsageStats(file.path)
StatsOnDelete(us, p) == IF IsTFile(p) THEN cleanupUsageStats(us, p) ELSE us

\* on('rename'): if (file instanceof TFile) updateUsageStatsPath(oldPath, file.path)
StatsOnRename(us, oldPath, newPath) ==
    IF IsTFile(newPath) THEN updateUsageStatsPath(us, oldPath, newPath) ELSE us

----------------------------------------------------------------------------
(* The vault of the lifecycle specification *)

\* the paths files take: two notes and one file that is not a note
Paths == {[base |-> <<"a", "b">>, ext |-> MD], [base |-> <<"a", "b">>, ext |-> "txt"],
          [base |-> <<"b", "a">>, ext |-> MD]}

\* what the user types on an empty line
Typed == {<<"a", "b">>, <<"b", "a">>}

\* selections of one note are counted up to MaxCount
MaxCount == 2

NoEvent == [type |-> "none", path |-> NoPath, oldPath |-> NoPath]
Event(type, p, oldPath) == [type |-> type, path |-> p, oldPath |-> oldPath]

NoHist == [n |-> 0, t |-> 0]
\* the record under a path was moved there by a rename: not counted from no record
MovedHist == [n |-> -1, t |-> 0]

\* the object slot a new TFile takes
NextFile == CHOOSE f \in FileIds : files[f].st = "free" /\ \A g \in 1 .. (f - 1) : files[g].st # "free"

\* the TFile objects still referenced: a deleted file's object lives on while an
\* index entry holds it, and is garbage otherwise
Collect(fs, m) ==
    [f \in DOMAIN fs |->
        IF fs[f].st = "dead" /\ \A i \in 1 .. Len(m) : m[i].file # f THEN Free ELSE fs[f]]

Init ==
    /\ now = 1
    /\ \E p \in Paths \cup {NoPath} :
          files = [f \in FileIds |->
                      IF f = 1 /\ p # NoPath
                      THEN [st |-> "alive", path |-> p, ctime |-> 1, aliases |-> NoAliases]
                      ELSE Free]
    /\ noteTitles = indexVaultTitles(files)
    /\ usageStats = << >>
    /\ settings = DEFAULT_SETTINGS
    /\ line = <<>>
    /\ cursor = 0
    /\ context = NoContext
    /\ suggestions = <<>>
    /\ persisted = SavedBlob(DEFAULT_SETTINGS, << >>)
    /\ lastEvent = NoEvent
    /\ selHist = [p \in Paths |-> NoHist]
    /\ saved = "none"
    /\ unhandled = FALSE
    /\ console = <<LoadingMessage>>

\* the clock advances
Tick ==
    /\ now < MaxTime
    /\ now' = now + 1
    /\ UNCHANGED <<files, noteTitles, usageStats, settings, line, cursor, context,
                   suggestions, persisted, lastEvent, selHist, saved, unhandled,
                   console>>

\* a file is created at p: the 'create' notification
Create(p) ==
    /\ \E f \in FileIds : files[f].st = "free"
    /\ p \notin VaultPaths
    /\ noteTitles' = IndexOnCreate(noteTitles, NextFile, p)
    /\ files' = Collect([files EXCEPT ![NextFile] =
                            [st |-> "alive", path |-> p, ctime |-> now,
                             aliases |-> NoAliases]],
                        noteTitles')
    /\ lastEvent' = Event("create", p, NoPath)
    /\ NoSave
    /\ UNCHANGED <<usageStats, settings, now, line, cursor, context, suggestions,
                   selHist>>

\* file f is renamed to newPath: the 'rename' notification, first to the index
\* listener, then to the usage-statistics listener
Rename(f, newPath, ok) ==
    /\ Alive(f)
    /\ newPath \notin VaultPaths
    /\ IsTFile(newPath) <=> IsTFile(files[f].path)
    /\ LET oldPath == files[f].path
           us == StatsOnRename(usageStats, oldPath, newPath)
       IN  /\ noteTitles' = IndexOnRename(noteTitles, f, oldPath, newPath)
           /\ files' = Collect([files EXCEPT ![f].path = newPath], noteTitles')
           /\ usageStats' = us
           /\ Saves(IsTFile(newPath) /\ HasRecord(usageStats, oldPath), ok, settings, us)
           /\ lastEvent' = Event("rename", newPath, oldPath)
           /\ selHist' = [selHist EXCEPT
                            ![oldPath] = NoHist,
                            ![newPath] = IF HasRecord(us, newPath) THEN MovedHist ELSE NoHist]
    /\ UNCHANGED <<settings, now, line, cursor, context, suggestions>>

\* file f is deleted: the 'delete' notification, to both listeners
Delete(f, ok) ==
    /\ Alive(f)
    /\ LET p == files[f].path
           us == StatsOnDelete(usageStats, p)
       IN  /\ noteTitles' = IndexOnDelete(noteTitles, p)
           /\ files' = Collect([files EXCEPT ![f].st = "dead"], noteTitles')
           /\ usageStats' = us
           /\ Saves(IsTFile(p) /\ HasRecord(usageStats, p), ok, settings, us)
           /\ lastEvent' = Event("delete", p, NoPath)
           /\ selHist' = [selHist EXCEPT ![p] = NoHist]
    /\ UNCHANGED <<settings, now, context, line, cursor, suggestions>>

\* a replacement that drops the text after the span
replaceRangeToLineEnd(l, link, start, end) == substring(l, 0, start) \o link

\* editor.replaceRange(link, start, end) on the cursor's line
replaceRange(l, link, start, end) ==
    substring(l, 0, start) \o link \o substring(l, end, Len(l))

\* a selection that records the usage whatever the enableUsageRanking setting is
selectSuggestionAlwaysTracks(sug, ctx, l, t) ==
    LET p == files[sug.file].path
        link == LinkOpen \o sug.title \o LinkClose
    IN  IF ctx = NoContext
        THEN [line |-> l, cursor |-> cursor, usageStats |-> usageStats, wrote |-> FALSE]
        ELSE [line |-> replaceRange(l, link, ctx.start, ctx.end),
              cursor |-> ctx.start + Len(link),
              usageStats |-> trackNoteSelection(usageStats, p, t),
              wrote |-> TRUE]

\* selectSuggestion(sug) with this.context = ctx on line l, at time t: the new
\* line, cursor and usage statistics, and whether saveSettings was called
selectSuggestion(sug, ctx, l, t) ==
    LET p == files[sug.file].path
        link == LinkOpen \o sug.title \o LinkClose
        us == trackNoteSelection(usageStats, p, t)
    IN  IF ctx = NoContext
        THEN [line |-> l, cursor |-> cursor, usageStats |-> usageStats, wrote |-> FALSE]
        ELSE [line |-> replaceRange(l, link, ctx.start, ctx.end),
              cursor |-> ctx.start + Len(link),
              usageStats |-> IF settings.enableUsageRanking THEN us ELSE usageStats,
              wrote |-> settings.enableUsageRanking]

\* the user types text on an empty line and picks the i-th suggestion of the
\* popup: the host calls onTrigger, getSuggestions and selectSuggestion in turn,
\* and closes the popup
TypeAndSelect(text, i, ok) ==
    LET ctx == onTrigger(text, Len(text), settings)
    IN  /\ ctx # NoContext
        /\ \E sugs \in {getSuggestions(ctx.query, settings)} :
              /\ i \in 1 .. Len(sugs)
              /\ \E r \in {selectSuggestion(sugs[i], ctx, text, now)},
                    p \in {files[sugs[i].file].path} :
                    /\ CountOf(usageStats, p) < MaxCount
                    /\ line' = r.line
                    /\ cursor' = r.cursor
                    /\ usageStats' = r.usageStats
                    /\ Saves(r.wrote, ok, settings, r.usageStats)
                    /\ selHist' = IF settings.enableUsageRanking
                                  THEN [selHist EXCEPT ![p] =
                                          IF @.n < 0 THEN @ ELSE [n |-> @.n + 1, t |-> now]]
                                  ELSE selHist
                    /\ lastEvent' = Event("select", p, NoPath)
        /\ context' = NoContext
        /\ suggestions' = <<>>
        /\ UNCHANGED <<files, noteTitles, settings, now>>

Next ==
    \/ Tick
    \/ \E p \in Paths : Create(p)
    \/ \E f \in FileIds, p \in Paths : Rename(f, p, TRUE)
    \/ \E f \in FileIds : Delete(f, TRUE)
    \/ \E text \in Typed, i \in 1 .. MaxFiles : TypeAndSelect(text, i, TRUE)

Spec == Init /\ [][Next]_vars

\* the paths folders take
FolderPaths == {[base |-> <<"a">>, ext |-> Folder], [base |-> <<"b">>, ext |-> Folder]}

\* the vault notifications alone, for files and for a folder: no selection is
\* made, the clock stands still
NextIndex ==
    \/ \E p \in Paths \cup FolderPaths : Create(p)
    \/ \E f \in FileIds, p \in Paths \cup FolderPaths : Rename(f, p, TRUE)
    \/ \E f \in FileIds : Delete(f, TRUE)

SpecIndex == Init /\ [][NextIndex]_vars

\* the handlers that save, when saveData may fail: the file of the vault is
\* selected, renamed and deleted, no file is created and the clock stands still
NextPersist ==
    \/ \E f \in FileIds, p \in Paths, ok \in BOOLEAN : Rename(f, p, ok)
    \/ \E f \in FileIds, ok \in BOOLEAN : Delete(f, ok)
    \/ \E text \in Typed, i \in 1 .. MaxFiles, ok \in BOOLEAN : TypeAndSelect(text, i, ok)

SpecPersist == Init /\ [][NextPersist]_vars

----------------------------------------------------------------------------
(* onTrigger on every line and cursor position *)

TrigChars == {"a", " ", "[", "]"}

\* the lines of at most n characters
Lines(n) == UNION {[1 .. k -> TrigChars] : k \in 0 .. n}

\* values of the minTriggerLength setting
MaxMinTrigger == 2

InitTrigger ==
    /\ now = 1
    /\ files = [f \in FileIds |-> Free]
    /\ noteTitles = <<>>
    /\ usageStats = << >>
    /\ \E n \in 1 .. MaxMinTrigger :
          settings = [DEFAULT_SETTINGS EXCEPT !.minTriggerLength = n]
    /\ line \in Lines(MaxLineLen)
    /\ cursor \in 0 .. Len(line)
    /\ context = NoContext
    /\ suggestions = <<>>
    /\ persisted = SavedBlob(DEFAULT_SETTINGS, << >>)
    /\ lastEvent = NoEvent
    /\ selHist = [p \in Paths |-> NoHist]
    /\ saved = "none"
    /\ unhandled = FALSE
    /\ console = <<LoadingMessage>>

\* the host calls onTrigger for the cursor position
OnTrigger ==
    /\ lastEvent = NoEvent
    /\ context' = onTrigger(line, cursor, settings)
    /\ lastEvent' = Event("trigger", NoPath, NoPath)
    /\ NoSave
    /\ UNCHANGED <<files, noteTitles, usageStats, settings, now, line, cursor,
                   suggestions, selHist>>

NextTrigger == OnTrigger

SpecTrigger == InitTrigger /\ [][NextTrigger]_vars

----------------------------------------------------------------------------
(* onTrigger with its scan loop taken one iteration at a time *)

\* onTrigger is in its loop, with the local wordStart
Scanning(wordStart) == [type |-> "scan", wordStart |-> wordStart]

\* a loop test that does not look at the character
ScanContinuesPastSpace(l, wordStart) == wordStart > 0

\* the loop test: wordStart > 0 && /\S/.test(line[wordStart - 1])
ScanContinues(l, wordStart) == wordStart > 0 /\ NonWhitespace(l[wordStart])

\* let wordStart = cursorPos
ScanBegin ==
    /\ lastEvent = NoEvent
    /\ lastEvent' = Scanning(cursor)
    /\ NoSave
    /\ UNCHANGED <<files, noteTitles, usageStats, settings, now, line, cursor,
                   context, suggestions, selHist>>

\* one iteration of the loop: wordStart--
ScanStep ==
    /\ lastEvent.type = "scan"
    /\ ScanContinues(line, lastEvent.wordStart)
    /\ lastEvent' = Scanning(lastEvent.wordStart - 1)
    /\ NoSave
    /\ UNCHANGED <<files, noteTitles, usageStats, settings, now, line, cursor,
                   context, suggestions, selHist>>

\* the loop is left and onTrigger returns
ScanEnd ==
    /\ lastEvent.type = "scan"
    /\ ~ScanContinues(line, lastEvent.wordStart)
    /\ context' = triggerFrom(line, cursor, lastEvent.wordStart, settings)
    /\ lastEvent' = Event("trigger", NoPath, NoPath)
    /\ NoSave
    /\ UNCHANGED <<files, noteTitles, usageStats, settings, now, line, cursor,
                   suggestions, selHist>>

NextScan == ScanBegin \/ ScanStep \/ ScanEnd

\* the callback runs to completion once the host has called it
SpecScan == InitTrigger /\ [][NextScan]_vars /\ WF_vars(NextScan)

----------------------------------------------------------------------------
(* getSuggestions on a corpus of two notes, for every setting of the matcher *)

\* the title of the first note; the second note is "aB"
SugTitles == {<<"A", "b">>, <<"b", "a">>}
SecondTitle == <<"a", "B">>

\* the front matter of the first note: no alias field, one string, the empty
\* string, a list with an entry that is not a string, a value that is no string
SugAliases ==
    {NoAliases, AliasStr(<<"a", "b">>), AliasStr(<<>>), AliasOther,
     AliasList(<<AliasOther, AliasStr(<<"B">>), AliasStr(<<"a">>)>>)}

\* the front matter of the second note
SecondAliases == {NoAliases, AliasList(<<AliasStr(<<"b", "a">>)>>)}

SugQueries == {<<"a">>, <<"A">>, <<"b">>, <<"a", "b">>}

\* the maxSuggestions setting takes its default and the values up to MaxShown
MaxShown == 2
DefaultShown == DEFAULT_SETTINGS.maxSuggestions

NotePath(title) == [base |-> title, ext |-> MD]

\* the recency, decay and newness settings: the defaults, and other values that
\* are tried with usage ranking off
DefaultRanking ==
    [k \in {"enableRecencyBoost", "recencyWeight", "decayDays", "enableNewnessBoost",
            "newnessBoostDays", "newnessBoostStrength"} |-> DEFAULT_SETTINGS[k]]
RankingValues ==
    {DefaultRanking,
     [enableRecencyBoost |-> FALSE, recencyWeight |-> 100, decayDays |-> 1,
      enableNewnessBoost |-> FALSE, newnessBoostDays |-> 1,
      newnessBoostStrength |-> <<2, 1>>]}

\* the usage record of a note: none, or k selections the last at time k
SugRecords == {Undefined} \cup {[count |-> k, lastUsed |-> k] : k \in 1 .. MaxCount}

\* usageStats with the records r1 and r2 for the paths p1 and p2
StatsWith(p1, r1, p2, r2) ==
    [p \in {q \in {p1, p2} : (IF q = p1 THEN r1 ELSE r2) # Undefined} |->
        IF p = p1 THEN r1 ELSE r2]

InitSuggest ==
    /\ now = MaxCount + 1
    /\ \E t \in SugTitles, a1 \in SugAliases, a2 \in SecondAliases :
          files = [f \in FileIds |->
                      IF f = 1
                      THEN [st |-> "alive", path |-> NotePath(t), ctime |-> 1, aliases |-> a1]
                      ELSE IF f = 2
                      THEN [st |-> "alive", path |-> NotePath(SecondTitle), ctime |-> 1,
                            aliases |-> a2]
                      ELSE Free]
    /\ noteTitles = indexVaultTitles(files)
    /\ \E r1, r2 \in SugRecords :
          usageStats = StatsWith(files[1].path, r1, files[2].path, r2)
    /\ \E cs, ms, ia, ur \in BOOLEAN, n \in (1 .. MaxShown) \cup {DefaultShown},
          rk \in RankingValues :
          /\ (ur => rk = DefaultRanking)
          /\ settings = [k \in DOMAIN DEFAULT_SETTINGS |->
                            IF k \in DOMAIN rk THEN rk[k]
                            ELSE [DEFAULT_SETTINGS EXCEPT
                                     !.minTriggerLength = 1, !.caseSensitive = cs,
                                     !.matchStart = ms, !.includeAliases = ia,
                                     !.enableUsageRanking = ur, !.maxSuggestions = n][k]]
    /\ line \in SugQueries
    /\ cursor = Len(line)
    /\ context = NoContext
    /\ suggestions = <<>>
    /\ persisted = SavedBlob(settings, usageStats)
    /\ lastEvent = NoEvent
    /\ selHist = [p \in Paths |-> NoHist]
    /\ saved = "none"
    /\ unhandled = FALSE
    /\ console = <<LoadingMessage>>

\* the host calls onTrigger and, on a trigger, getSuggestions with its context
GetSuggestions ==
    /\ lastEvent = NoEvent
    /\ \E ctx \in {onTrigger(line, cursor, settings)} :
          /\ ctx # NoContext
          /\ context' = ctx
          /\ suggestions' = getSuggestions(ctx.query, settings)
    /\ lastEvent' = Event("suggest", NoPath, NoPath)
    /\ NoSave
    /\ UNCHANGED <<files, noteTitles, usageStats, settings, now, line, cursor,
                   selHist>>

NextSuggest == GetSuggestions

SpecSuggest == InitSuggest /\ [][NextSuggest]_vars

----------------------------------------------------------------------------
(* updateUsageStatsPath on every pair of paths and every usage statistics *)

\* the usage statistics over Paths whose records are SugRecords
AllStats ==
    {Restrict(g, {p \in Paths : g[p] # Undefined}) : g \in [Paths -> SugRecords]}

InitRekey ==
    /\ now = MaxCount + 1
    /\ files = [f \in FileIds |-> Free]
    /\ noteTitles = <<>>
    /\ usageStats \in AllStats
    /\ settings = DEFAULT_SETTINGS
    /\ line = <<>>
    /\ cursor = 0
    /\ context = NoContext
    /\ suggestions = <<>>
    /\ persisted = SavedBlob(settings, usageStats)
    /\ lastEvent = NoEvent
    /\ selHist = [p \in Paths |-> NoHist]
    /\ saved = "none"
    /\ unhandled = FALSE
    /\ console = <<LoadingMessage>>

\* the usage-statistics listener of 'rename' is called with a file whose path
\* is newPath and with oldPath
Rekey(oldPath, newPath, ok) ==
    /\ lastEvent = NoEvent
    /\ usageStats' = updateUsageStatsPath(usageStats, oldPath, newPath)
    /\ Saves(HasRecord(usageStats, oldPath), ok, settings,
             updateUsageStatsPath(usageStats, oldPath, newPath))
    /\ lastEvent' = Event("rekey", newPath, oldPath)
    /\ UNCHANGED <<files, noteTitles, settings, now, line, cursor, context,
                   suggestions, selHist>>

NextRekey == \E oldPath, newPath \in Paths : Rekey(oldPath, newPath, TRUE)

SpecRekey == InitRekey /\ [][NextRekey]_vars

----------------------------------------------------------------------------
(* selectSuggestion on every line, cursor position and context *)

\* the note of the vault and its alias
SelTitle == <<"a", "a">>
SelAlias == <<"a">>

\* the selection callback ran for the candidate sug
Picked(sug) ==
    [type |-> "pick", path |-> files[sug.file].path, oldPath |-> NoPath,
     title |-> sug.title]

InitSelect ==
    /\ now = MaxTime
    /\ files = [f \in FileIds |->
                   IF f = 1
                   THEN [st |-> "alive", path |-> NotePath(SelTitle), ctime |-> 1,
                         aliases |-> AliasStr(SelAlias)]
                   ELSE Free]
    /\ noteTitles = indexVaultTitles(files)
    /\ usageStats \in {<< >>, StatsWith(NotePath(SelTitle), [count |-> 1, lastUsed |-> 1],
                                        NoPath, Undefined)}
    /\ \E ur \in BOOLEAN :
          settings = [DEFAULT_SETTINGS EXCEPT !.minTriggerLength = 1,
                                              !.enableUsageRanking = ur]
    /\ line \in Lines(MaxLineLen)
    /\ cursor \in 0 .. Len(line)
    /\ context \in {NoContext, onTrigger(line, cursor, settings)}
    /\ suggestions = IF context = NoContext THEN getSuggestions(<<>>, settings)
                     ELSE getSuggestions(context.query, settings)
    /\ persisted = SavedBlob(settings, usageStats)
    /\ lastEvent = NoEvent
    /\ selHist = [p \in Paths |-> NoHist]
    /\ saved = "none"
    /\ unhandled = FALSE
    /\ console = <<LoadingMessage>>

\* the host calls selectSuggestion for the i-th candidate of the popup
SelectSuggestion(i, ok) ==
    /\ lastEvent = NoEvent
    /\ i \in 1 .. Len(suggestions)
    /\ \E r \in {selectSuggestion(suggestions[i], context, line, now)} :
          /\ line' = r.line
          /\ cursor' = r.cursor
          /\ usageStats' = r.usageStats
          /\ Saves(r.wrote, ok, settings, r.usageStats)
    /\ lastEvent' = Picked(suggestions[i])
    /\ UNCHANGED <<files, noteTitles, settings, now, context, suggestions, selHist>>

NextSelect == \E i \in 1 .. MaxFiles : SelectSuggestion(i, TRUE)

SpecSelect == InitSelect /\ [][NextSelect]_vars

----------------------------------------------------------------------------
(* The ranking of two notes that both match the query, for the valid values of
   the ranking settings (times in ticks, DayInMs ticks a day) and for the
   default settings (times in days) *)

\* the largest age, in ticks, of a selection or a creation
MaxAge == 5

\* values of the recencyWeight setting
Weights == {0, 30, 100}

\* the ranking settings with short periods
ShortSettings ==
    {[DEFAULT_SETTINGS EXCEPT
         !.enableRecencyBoost = rb, !.recencyWeight = w,
         !.decayDays = dd, !.enableNewnessBoost = nb, !.newnessBoostDays = 2,
         !.newnessBoostStrength = st] :
       rb \in BOOLEAN, w \in Weights, dd \in {1, 2}, nb \in BOOLEAN,
       st \in {<<0, 1>>, <<1, 2>>, <<2, 1>>}}

\* creation ages of the two notes: equal, or the second note one tick older
ShortCreated == {<<a, a>> : a \in 0 .. MaxAge} \cup {<<a - 1, a>> : a \in 1 .. MaxAge}

\* ages in days of the scenarios of the documentation
DocUsedDays == {0, 2, 200}
DocCreatedDays == {0, 15, 30, 40, 200}
DocCounts == {5, 10, 100}

Days(S) == {d * DayInMs : d \in S}

\* the two notes, created a[1] and a[2] ticks before t, with any usage records
\* of the given counts and ages
ScoreInit(stgs, t, counts, used, created) ==
    /\ now = t
    /\ \E a \in created :
          files = [f \in FileIds |->
                      IF f \in {1, 2}
                      THEN [st |-> "alive",
                            path |-> NotePath(IF f = 1 THEN <<"a", "b">>
                                              ELSE <<"b", "a", "b">>),
                            ctime |-> t - a[f], aliases |-> NoAliases]
                      ELSE Free]
    /\ noteTitles = indexVaultTitles(files)
    /\ \E r1, r2 \in {Undefined}
                      \cup {[count |-> c, lastUsed |-> t - u] : c \in counts, u \in used} :
          usageStats = StatsWith(files[1].path, r1, files[2].path, r2)
    /\ settings \in stgs
    /\ line = <<"a", "b">>
    /\ cursor = Len(line)
    /\ context = NoContext
    /\ suggestions = <<>>
    /\ persisted = SavedBlob(settings, usageStats)
    /\ lastEvent = NoEvent
    /\ selHist = [p \in Paths |-> NoHist]
    /\ saved = "none"
    /\ unhandled = FALSE
    /\ console = <<LoadingMessage>>

InitScore ==
    \/ ScoreInit(ShortSettings, MaxAge + 1, 1 .. MaxCount, 0 .. MaxAge, ShortCreated)
    \/ ScoreInit({DEFAULT_SETTINGS}, 200 * DayInMs + 1, DocCounts, Days(DocUsedDays),
                 Days(DocCreatedDays) \X Days(DocCreatedDays))

SpecScore == InitScore /\ [][NextSuggest]_vars

----------------------------------------------------------------------------
(* AutoLinkSettingsTab: the settings form *)

IsDigit(c) == c \in {"0", "1", "2", "3", "4", "5", "6", "7", "8", "9"}

DigitValue(c) ==
    CASE c = "0" -> 0 [] c = "1" -> 1 [] c = "2" -> 2 [] c = "3" -> 3 [] c = "4" -> 4
      [] c = "5" -> 5 [] c = "6" -> 6 [] c = "7" -> 7 [] c = "8" -> 8 [] c = "9" -> 9

RECURSIVE DigitsLen(_, _)
\* the length of the run of digits of s that starts at position i
DigitsLen(s, i) == IF i <= Len(s) /\ IsDigit(s[i]) THEN 1 + DigitsLen(s, i + 1) ELSE 0

RECURSIVE DecimalValue(_, _, _)
\* the value of the n digits of s from position i
DecimalValue(s, i, n) ==
    IF n = 0 THEN 0 ELSE DecimalValue(s, i, n - 1) * 10 + DigitValue(s[i + n - 1])

RECURSIVE SkipSpace(_, _)
SkipSpace(s, i) == IF i <= Len(s) /\ s[i] = " " THEN SkipSpace(s, i + 1) ELSE i

RECURSIVE Pow10(_)
Pow10(n) == IF n = 0 THEN 1 ELSE 10 * Pow10(n - 1)

\* the result of a parse: NaN, or a number
NaN == [nan |-> TRUE, val |-> 0]
Num(v) == [nan |-> FALSE, val |-> v]

\* the sign a numeral at position i of s starts with, and where its digits start
SignAt(s, i) == IF i <= Len(s) /\ s[i] = "-" THEN -1 ELSE 1
AfterSign(s, i) == IF i <= Len(s) /\ s[i] \in {"-", "+"} THEN i + 1 ELSE i

\* parseInt(value): leading white space is skipped, then an optional sign and
\* the longest run of decimal digits are read and the rest of the text is
\* ignored; NaN when there is no digit (no text of the form starts with 0x)
parseInt(s) ==
    LET j == AfterSign(s, SkipSpace(s, 1))
        n == DigitsLen(s, j)
    IN  IF n = 0 THEN NaN
        ELSE Num(SignAt(s, SkipSpace(s, 1)) * DecimalValue(s, j, n))

\* parseFloat(value): as parseInt, with an optional fraction after the digits;
\* the value is a rational (no text of the form has an exponent)
parseFloat(s) ==
    LET j == AfterSign(s, SkipSpace(s, 1))
        n == DigitsLen(s, j)
        m == IF j + n <= Len(s) /\ s[j + n] = "." THEN DigitsLen(s, j + n + 1) ELSE 0
    IN  IF n + m = 0 THEN NaN
        ELSE Num(Rat(SignAt(s, SkipSpace(s, 1))
                        * (DecimalValue(s, j, n) * Pow10(m) + DecimalValue(s, j + n + 1, m)),
                     Pow10(m)))

\* what the user leaves in a text field
FormTexts ==
    {<<>>, <<"1", "x">>, <<"-", "1">>, <<"0">>, <<"1", ".", "5">>,
     <<"1", "0", "0", ".", "5">>}

\* the onChange callback ran for the field with the value
Edited(field, value) == [type |-> "edit", field |-> field, value |-> value]

\* the user makes up to MaxEdits edits, one per tick of the clock
MaxEdits == 3

\* an onChange handler: when the value is accepted the setting is assigned and
\* saveSettings is awaited, otherwise nothing is done
OnChange(field, value, accepted, newValue) ==
    /\ now <= MaxEdits
    /\ now' = now + 1
    /\ settings' = IF accepted THEN [settings EXCEPT ![field] = newValue] ELSE settings
    /\ Saves(accepted, TRUE, settings', usageStats)
    /\ lastEvent' = Edited(field, value)
    /\ UNCHANGED <<files, noteTitles, usageStats, line, cursor, context,
                   suggestions, selHist>>

\* const num = parseInt(value); if (!isNaN(num) && num > 0)
OnChangePositive(field, value) ==
    LET num == parseInt(value)
    IN  OnChange(field, value, ~num.nan /\ num.val > 0, num.val)

SetMinTriggerLength(value) == OnChangePositive("minTriggerLength", value)
SetMaxSuggestions(value) == OnChangePositive("maxSuggestions", value)
SetDecayDays(value) == OnChangePositive("decayDays", value)
SetNewnessBoostDays(value) == OnChangePositive("newnessBoostDays", value)

\* const num = parseInt(value); if (!isNaN(num) && num >= 0 && num <= 100)
SetRecencyWeight(value) ==
    LET num == parseInt(value)
    IN  OnChange("recencyWeight", value, ~num.nan /\ num.val >= 0 /\ num.val <= 100,
                 num.val)

\* const num = parseFloat(value); if (!isNaN(num) && num >= 0 && num <= 2.0)
SetNewnessBoostStrength(value) ==
    LET num == parseFloat(value)
    IN  OnChange("newnessBoostStrength", value,
                 IF num.nan THEN FALSE
                 ELSE RLeq(RInt(0), num.val) /\ RLeq(num.val, RInt(2)),
                 num.val)

\* the toggles assign the value and save
SetCaseSensitive(value) == OnChange("caseSensitive", value, TRUE, value)
SetMatchStart(value) == OnChange("matchStart", value, TRUE, value)
SetIncludeAliases(value) == OnChange("includeAliases", value, TRUE, value)
SetShowPath(value) == OnChange("showPath", value, TRUE, value)
SetEnableUsageRanking(value) == OnChange("enableUsageRanking", value, TRUE, value)
SetEnableRecencyBoost(value) == OnChange("enableRecencyBoost", value, TRUE, value)
SetEnableNewnessBoost(value) == OnChange("enableNewnessBoost", value, TRUE, value)

InitForm ==
    /\ now = 1
    /\ files = [f \in FileIds |-> Free]
    /\ noteTitles = <<>>
    /\ usageStats = << >>
    /\ settings = DEFAULT_SETTINGS
    /\ line = <<>>
    /\ cursor = 0
    /\ context = NoContext
    /\ suggestions = <<>>
    /\ persisted = SavedBlob(DEFAULT_SETTINGS, << >>)
    /\ lastEvent = NoEvent
    /\ selHist = [p \in Paths |-> NoHist]
    /\ saved = "none"
    /\ unhandled = FALSE
    /\ console = <<LoadingMessage>>

NextForm ==
    \/ \E value \in FormTexts : SetMinTriggerLength(value)
    \/ \E value \in FormTexts : SetMaxSuggestions(value)
    \/ \E value \in BOOLEAN : SetCaseSensitive(value)
    \/ \E value \in BOOLEAN : SetMatchStart(value)
    \/ \E value \in BOOLEAN : SetIncludeAliases(value)
    \/ \E value \in BOOLEAN : SetShowPath(value)
    \/ \E value \in BOOLEAN : SetEnableUsageRanking(value)
    \/ \E value \in BOOLEAN : SetEnableRecencyBoost(value)
    \/ \E value \in FormTexts : SetRecencyWeight(value)
    \/ \E value \in FormTexts : SetDecayDays(value)
    \/ \E value \in BOOLEAN : SetEnableNewnessBoost(value)
    \/ \E value \in FormTexts : SetNewnessBoostDays(value)
    \/ \E value \in FormTexts : SetNewnessBoostStrength(value)

SpecForm == InitForm /\ [][NextForm]_vars

----------------------------------------------------------------------------
(* onload: the persisted blob is loaded and the suggester constructed *)

\* loadData() when no data was saved: null
NoData == [absent |-> TRUE]

\* an object with no property
EmptyObject == [k \in {} |-> TRUE]

\* Object.assign({}, target, src): the properties of src over those of target
ObjectAssign(target, src) ==
    [k \in DOMAIN target \cup DOMAIN src |-> IF k \in DOMAIN src THEN src[k] ELSE target[k]]

\* a loader that reads the settings of the wrapper only: data?.settings || {}
loadSettingsWrapperOnly(data) ==
    [settings |->
        ObjectAssign(DEFAULT_SETTINGS,
                     IF data = NoData THEN EmptyObject
                     ELSE IF "settings" \in DOMAIN data THEN data.settings
                     ELSE EmptyObject),
     usageStats |->
        IF data = NoData THEN EmptyObject
        ELSE IF "usageStats" \in DOMAIN data THEN data.usageStats
        ELSE EmptyObject]

\* loadSettings, for the blob data:
\*   settings = Object.assign({}, DEFAULT_SETTINGS, data?.settings || data || {})
\*   usageStats = data?.usageStats || {}
\* (an object is truthy, also one with no property)
loadSettings(data) ==
    [settings |->
        ObjectAssign(DEFAULT_SETTINGS,
                     IF data = NoData THEN EmptyObject
                     ELSE IF "settings" \in DOMAIN data THEN data.settings
                     ELSE data),
     usageStats |->
        IF data = NoData THEN EmptyObject
        ELSE IF "usageStats" \in DOMAIN data THEN data.usageStats
        ELSE EmptyObject]

\* settings fields as an earlier run may have saved them, two of them falsy
SavedValues ==
    [minTriggerLength |-> 3, caseSensitive |-> TRUE, includeAliases |-> FALSE,
     recencyWeight |-> 0]

\* the settings objects that hold a subset of these fields
PartialSettings == {[k \in S |-> SavedValues[k]] : S \in SUBSET DOMAIN SavedValues}

\* the usage statistics of a blob
SavedStats ==
    {EmptyObject, StatsWith(NotePath(<<"a", "b">>), [count |-> 2, lastUsed |-> 1],
                            NoPath, Undefined)}

\* the persisted blobs: none, the flat settings of an early version (the empty
\* object among them), and the wrapper with or without each of its two parts
Blobs ==
    {NoData} \cup PartialSettings
        \cup {[settings |-> ps] : ps \in PartialSettings}
        \cup {[usageStats |-> us] : us \in SavedStats}
        \cup {[settings |-> ps, usageStats |-> us] : ps \in PartialSettings, us \in SavedStats}

\* the plugin object before onload: settings is declared and not assigned
InitLoad ==
    /\ now = 1
    /\ files = [f \in FileIds |->
                   IF f = 1
                   THEN [st |-> "alive", path |-> NotePath(<<"a", "b">>), ctime |-> 1,
                         aliases |-> NoAliases]
                   ELSE Free]
    /\ noteTitles = <<>>
    /\ usageStats = EmptyObject
    /\ settings = Undefined
    /\ line = <<>>
    /\ cursor = 0
    /\ context = NoContext
    /\ suggestions = <<>>
    /\ persisted \in Blobs
    /\ lastEvent = NoEvent
    /\ selHist = [p \in Paths |-> NoHist]
    /\ saved = "none"
    /\ unhandled = FALSE
    /\ console = <<>>

\* onload: the message, loadSettings, then the suggester is constructed and
\* indexes the vault
Onload ==
    /\ lastEvent = NoEvent
    /\ console' = Append(console, LoadingMessage)
    /\ \E loaded \in {loadSettings(persisted)} :
          /\ settings' = loaded.settings
          /\ usageStats' = loaded.usageStats
    /\ noteTitles' = indexVaultTitles(files)
    /\ lastEvent' = Event("load", NoPath, NoPath)
    /\ saved' = "none"
    /\ UNCHANGED <<files, now, line, cursor, context, suggestions, persisted, selHist,
                   unhandled>>

NextLoad == Onload

SpecLoad == InitLoad /\ [][NextLoad]_vars

----------------------------------------------------------------------------
(* Every callback of the plugin in one session: the popup, the settings tab
   and the vault notifications, with usage ranking switched on and off *)

\* a session in progress, one edit of the settings away from the end of the
\* clock: the note ab.md, selected once or never, and the text ab on the editor
\* line
InitWrites ==
    /\ now = MaxEdits
    /\ files = [f \in FileIds |->
                   IF f = 1
                   THEN [st |-> "alive", path |-> NotePath(<<"a", "b">>), ctime |-> 1,
                         aliases |-> NoAliases]
                   ELSE Free]
    /\ noteTitles = indexVaultTitles(files)
    /\ usageStats \in {<< >>, StatsWith(NotePath(<<"a", "b">>), [count |-> 1, lastUsed |-> 1],
                                        NoPath, Undefined)}
    /\ \E ur \in BOOLEAN : settings = [DEFAULT_SETTINGS EXCEPT !.enableUsageRanking = ur]
    /\ line = <<"a", "b">>
    /\ cursor = Len(line)
    /\ context = NoContext
    /\ suggestions = <<>>
    /\ persisted = SavedBlob(settings, usageStats)
    /\ lastEvent = NoEvent
    /\ selHist = [p \in Paths |->
                     IF HasRecord(usageStats, p) THEN [n |-> 1, t |-> 1] ELSE NoHist]
    /\ saved = "none"
    /\ unhandled = FALSE
    /\ console = <<LoadingMessage>>

NextWrites ==
    \/ OnTrigger
    \/ GetSuggestions
    \/ \E value \in BOOLEAN : SetEnableUsageRanking(value)
    \/ Create(NotePath(<<"b", "a">>))
    \/ \E f \in FileIds, p \in Paths : Rename(f, p, TRUE)
    \/ \E f \in FileIds : Delete(f, TRUE)
    \/ \E text \in Typed, i \in 1 .. MaxFiles : TypeAndSelect(text, i, TRUE)

SpecWrites == InitWrites /\ [][NextWrites]_vars

----------------------------------------------------------------------------
(* The ranking of three notes, for a query that two of them match and a query
   that all three match; the third note is selected and deleted *)

ThreeTitles == <<(<<"a", "b">>), (<<"b", "a", "b">>), (<<"b">>)>>
ThreeNotes == DOMAIN ThreeTitles
ThreeQueries == {<<"a", "b">>, <<"b">>}

\* the usage records of the first and the second note at time t
FirstRecords(t) ==
    {Undefined, [count |-> 2, lastUsed |-> t - MaxAge], [count |-> 1, lastUsed |-> t - MaxAge]}
SecondRecords(t) ==
    {Undefined, [count |-> 1, lastUsed |-> t], [count |-> 200, lastUsed |-> t - 1]}

\* the usage records of the third note: well-formed ones, and ones that a
\* damaged data file holds, with the count or the lastUsed field missing
ThirdRecords(t) ==
    {Undefined, [count |-> 1, lastUsed |-> t - 1], [count |-> 3, lastUsed |-> t]}
ThirdCorrupted(t) == {[lastUsed |-> t], [count |-> 3]}

\* usageStats with the record r[f] for note f
RecordsOf(r) ==
    [p \in {NotePath(ThreeTitles[f]) : f \in {g \in ThreeNotes : r[g] # Undefined}} |->
        r[CHOOSE f \in ThreeNotes : NotePath(ThreeTitles[f]) = p]]

\* the three notes, created together, after the usage statistics were loaded
\* with a third record of the set third
ThreeInit(third) ==
    /\ now = MaxAge + 1
    /\ files = [f \in ThreeNotes |->
                   [st |-> "alive", path |-> NotePath(ThreeTitles[f]), ctime |-> 1,
                    aliases |-> NoAliases]]
    /\ noteTitles = indexVaultTitles(files)
    /\ \E r1 \in FirstRecords(now), r2 \in SecondRecords(now), r3 \in third :
          usageStats = RecordsOf(<<r1, r2, r3>>)
    /\ \E rb, nb \in BOOLEAN :
          settings = [DEFAULT_SETTINGS EXCEPT !.minTriggerLength = 1,
                                              !.enableRecencyBoost = rb,
                                              !.enableNewnessBoost = nb]
    /\ line \in ThreeQueries
    /\ cursor = Len(line)
    /\ context = NoContext
    /\ suggestions = <<>>
    /\ persisted = SavedBlob(settings, usageStats)
    /\ lastEvent = NoEvent
    /\ selHist = [p \in Paths \cup {NotePath(ThreeTitles[f]) : f \in ThreeNotes} |->
                     IF HasRecord(usageStats, p) THEN MovedHist ELSE NoHist]
    /\ saved = "none"
    /\ unhandled = FALSE
    /\ console = <<LoadingMessage>>

NextThree ==
    \/ GetSuggestions
    \/ \E f \in ThreeNotes : Delete(f, TRUE)
    \/ \E text \in ThreeQueries, i \in ThreeNotes : TypeAndSelect(text, i, TRUE)

InitThree == ThreeInit(ThirdRecords(MaxAge + 1))

SpecThree == InitThree /\ [][NextThree]_vars

\* the same, the data file being damaged
InitCorrupt == ThreeInit(ThirdCorrupted(MaxAge + 1))

SpecCorrupt == InitCorrupt /\ [][NextThree]_vars

----------------------------------------------------------------------------
(* The claims *)

\* the notes of the vault: the paths of its md files
VaultNotes == {p \in VaultPaths : IsNote(p)}

\* C1: after any sequence of create, rename and delete notifications the key
\* set of the index is exactly the set of paths of the notes that exist: no
\* entry for a path that names no existing note, also when a note was renamed
\* to an extension that is not md.
C1_IndexMirrorsVault == Keys(noteTitles) = VaultNotes

\* C2: right after a rename notification oldPath -> newPath whose file is a
\* note, the index has an entry under newPath and none under oldPath, and a
\* getSuggestions call whose query every title matches returns a candidate for
\* the file at newPath: the handler's delete and set are one step.
C2_RenameAtomic ==
    (lastEvent.type = "rename" /\ IsNote(lastEvent.path)) =>
        /\ HasKey(noteTitles, lastEvent.path)
        /\ ~HasKey(noteTitles, lastEvent.oldPath)
        /\ LET sugs == getSuggestions(<<>>, settings)
           IN  \E i \in 1 .. Len(sugs) : files[sugs[i].file].path = lastEvent.path

\* a note was renamed to another note path
C2_Witness ==
    /\ lastEvent.type = "rename"
    /\ IsNote(lastEvent.path)
    /\ IsNote(lastEvent.oldPath)
    /\ Keys(noteTitles) = {lastEvent.path}

\* the text before the cursor
BeforeCursor == substring(line, 0, cursor)

\* the length of the maximal run of non-whitespace characters ending at the cursor
TokenLen ==
    CHOOSE k \in 0 .. cursor :
        /\ \A i \in (cursor - k + 1) .. cursor : line[i] # " "
        /\ (k < cursor => line[cursor - k] = " ")

\* the offsets at which pat occurs in s
Occurrences(s, pat) == {k \in 0 .. Len(s) : OccursAt(s, pat, k)}

\* the largest number of occurrences of the two-character pat in s no two of
\* which overlap
NonOverlapping(s, pat) ==
    LET occ == Occurrences(s, pat)
        apart(S) == \A j, k \in S : j # k => (j - k >= Len(pat) \/ k - j >= Len(pat))
        sizes == {Cardinality(S) : S \in {T \in SUBSET occ : apart(T)}}
    IN  CHOOSE n \in sizes : \A o \in sizes : o <= n

\* C6: onTrigger returns none exactly when the token ending at the cursor is
\* shorter than minTriggerLength or the prefix holds more non-overlapping '[['
\* than ']]'; in every other case it returns a trigger.
C6_TriggerExactly ==
    lastEvent.type = "trigger" =>
        ((context = NoContext) <=>
            \/ TokenLen < settings.minTriggerLength
            \/ NonOverlapping(BeforeCursor, LinkOpen) > NonOverlapping(BeforeCursor, LinkClose))

\* a token long enough is refused because it follows an open link
C6_Witness ==
    /\ lastEvent.type = "trigger"
    /\ context = NoContext
    /\ TokenLen >= settings.minTriggerLength
    /\ line[cursor] = "a"
    /\ NonOverlapping(BeforeCursor, LinkOpen) = 1

\* the cursor is inside a link: the last '[[' before the cursor is not followed
\* by a ']]' before the cursor
CursorInsideLink ==
    \E k \in Occurrences(BeforeCursor, LinkOpen) :
        /\ \A j \in Occurrences(BeforeCursor, LinkOpen) : j <= k
        /\ \A j \in Occurrences(BeforeCursor, LinkClose) : j < k + Len(LinkOpen)

\* C7: onTrigger never triggers when the cursor is inside a link, whatever the
\* line holds before that link.
C7_NoTriggerInsideLink ==
    (lastEvent.type = "trigger" /\ CursorInsideLink) => context = NoContext

\* the folding the settings ask for
Folded(s) == IF settings.caseSensitive THEN s ELSE [i \in 1 .. Len(s) |-> Lower(s[i])]

\* the configured predicate on a display text: with matchStart the folded text
\* starts with the folded query, otherwise it holds it as a substring
SatisfiesPredicate(text, q) ==
    LET tx == Folded(text)
        qy == Folded(q)
        at(k) == k + Len(qy) <= Len(tx) /\ SubSeq(tx, k + 1, k + Len(qy)) = qy
    IN  IF settings.matchStart THEN at(0) ELSE \E k \in 0 .. Len(tx) : at(k)

Suggested == lastEvent.type = "suggest"

\* C3: every candidate getSuggestions returns has a displayText that satisfies
\* the configured predicate (prefix with matchStart, substring otherwise, both
\* sides case-folded unless caseSensitive).
C3_NoFalsePositive ==
    Suggested =>
        \A i \in 1 .. Len(suggestions) :
            SatisfiesPredicate(suggestions[i].title, context.query)

\* a title is returned for a query of another case, and a title that holds the
\* query but does not start with it is left out
C3_Witness ==
    /\ Suggested
    /\ settings.matchStart
    /\ ~settings.caseSensitive
    /\ context.query = <<"A">>
    /\ \E i \in 1 .. Len(suggestions) : suggestions[i].title = <<"a", "B">>
    /\ \A i \in 1 .. Len(suggestions) : suggestions[i].title # <<"b", "a">>
    /\ files[1].path.base = <<"b", "a">>

\* the string entries of the alias field of f, in field order
StringAliases(f) ==
    LET a == files[f].aliases
        items == IF a.kind = "list" THEN a.val ELSE IF a.kind = "str" THEN <<a>> ELSE <<>>
        strs == SelectSeq(items, LAMBDA e : e.kind = "str")
    IN  [i \in 1 .. Len(strs) |-> strs[i].val]

\* the candidates for file f in a candidate list, in list order
CandidatesFor(cands, f) == SelectSeq(cands, LAMBDA c : c.file = f)

\* what the title of f contributes to the candidate list
TitleCandidate(f, q) ==
    IF SatisfiesPredicate(files[f].path.base, q)
    THEN <<[title |-> files[f].path.base, file |-> f]>> ELSE <<>>

\* what the aliases of f contribute when aliases are included
AliasCandidates(f, q) ==
    LET hits == SelectSeq(StringAliases(f), LAMBDA s : SatisfiesPredicate(s, q))
    IN  [i \in 1 .. Len(hits) |-> [title |-> hits[i], file |-> f]]

\* C4: with includeAliases on, the candidate list before truncation holds, for
\* every indexed note, one candidate per string alias that satisfies the
\* predicate, with the alias as displayText and the note as target, entries that
\* are not strings being skipped; with includeAliases off it holds no alias
\* candidate. What is not truncated is returned.
C4_AliasCandidates ==
    Suggested =>
        LET cands == Candidates(context.query, settings) IN
        /\ \A f \in FileIds :
              Alive(f) =>
                  CandidatesFor(cands, f) =
                      TitleCandidate(f, context.query)
                      \o (IF settings.includeAliases
                          THEN AliasCandidates(f, context.query) ELSE <<>>)
        /\ Len(cands) <= settings.maxSuggestions =>
              \A i \in 1 .. Len(cands) :
                  \E j \in 1 .. Len(suggestions) : suggestions[j] = cands[i]

\* the alias after an entry that is not a string is returned, for its note
C4_Witness ==
    /\ Suggested
    /\ settings.includeAliases
    /\ files[1].aliases.kind = "list"
    /\ context.query = <<"b">>
    /\ \E i \in 1 .. Len(suggestions) :
          suggestions[i] = [title |-> <<"B">>, file |-> 1]

\* how often candidate c occurs in the list s
Occurs(s, c) == Cardinality({i \in 1 .. Len(s) : s[i] = c})

\* C5: getSuggestions returns at most maxSuggestions candidates and, with usage
\* ranking on, truncates after ordering: no candidate left out of the result
\* has a strictly higher score than a candidate that was returned.
C5_TruncateAfterOrdering ==
    Suggested =>
        /\ Len(suggestions) <= settings.maxSuggestions
        /\ settings.enableUsageRanking =>
              LET cands == Candidates(context.query, settings) IN
              \A i \in 1 .. Len(cands), j \in 1 .. Len(suggestions) :
                  RLess(ScoresOf(cands, settings)[CHOOSE k \in 1 .. Len(cands) :
                                                     cands[k] = suggestions[j]],
                        ScoresOf(cands, settings)[i])
                      => Occurs(suggestions, cands[i]) = Occurs(cands, cands[i])

\* the list was truncated and the candidate returned is not the first match
C5_Witness ==
    /\ Suggested
    /\ settings.enableUsageRanking
    /\ settings.maxSuggestions = 1
    /\ Len(suggestions) = 1
    /\ Len(Candidates(context.query, settings)) > 1
    /\ suggestions[1] # Candidates(context.query, settings)[1]

\* C8: starting from no record for a path, after N selections of candidates
\* targeting it, with usage ranking on and no delete or rename of it in between,
\* its record has count N and lastUsed the time of the last selection; and a
\* selection never decreases the count of a record.
C8_CountsSelections ==
    /\ [](\A p \in Paths :
            selHist[p].n >= 0 =>
                IF selHist[p].n = 0 THEN ~HasRecord(usageStats, p)
                ELSE /\ HasRecord(usageStats, p)
                     /\ usageStats[p].count = selHist[p].n
                     /\ usageStats[p].lastUsed = selHist[p].t)
    /\ [][lastEvent'.type = "select" =>
             \A p \in DOMAIN usageStats :
                 HasRecord(usageStats', p) /\ usageStats'[p].count >= usageStats[p].count]_vars

\* a note selected twice, the second time later than the first
C8_Witness ==
    \E p \in Paths :
        /\ selHist[p] = [n |-> 2, t |-> 2]
        /\ HasRecord(usageStats, p)
        /\ usageStats[p] = [count |-> 2, lastUsed |-> 2]
        /\ lastEvent = Event("select", p, NoPath)

C10_DeleteForgets ==
    [][/\ lastEvent'.type = "delete" =>
             /\ ~HasRecord(usageStats', lastEvent'.path)
             /\ ~HasKey(noteTitles', lastEvent'.path)
       /\ (lastEvent'.type = "create" /\ IsNote(lastEvent'.path)) =>
             ~HasRecord(usageStats', lastEvent'.path)
       /\ \A q \in DOMAIN usageStats :
             ~HasRecord(usageStats', q) =>
                 \/ lastEvent' = Event("delete", q, NoPath)
                 \/ (lastEvent'.type = "rename" /\ lastEvent'.oldPath = q)]_vars

\* the link token for a display text
LinkToken(text) == <<"[", "[">> \o text \o <<"]", "]">>

\* C11: a selection with an active trigger context replaces the span
\* [start, end) of the line by exactly '[[' + displayText + ']]', leaves the
\* text before and after the span as it was, and sets the cursor at column
\* start + length(displayText) + 4; a selection with no active context changes
\* neither the text nor the usage statistics.
C11_SelectReplacesSpan ==
    [][lastEvent'.type = "pick" =>
          IF context # NoContext
          THEN /\ line' = SubSeq(line, 1, context.start)
                              \o LinkToken(lastEvent'.title)
                              \o SubSeq(line, context.end + 1, Len(line))
               /\ cursor' = context.start + Len(lastEvent'.title) + 4
          ELSE /\ line' = line
               /\ usageStats' = usageStats
               /\ saved' = "none"]_vars

\* the alias was inserted for a token in the middle of the line
C11_Witness ==
    /\ lastEvent.type = "pick"
    /\ lastEvent.title = SelAlias
    /\ context # NoContext
    /\ context.start = 1
    /\ line = <<" ", "[", "[", "a", "]", "]", " ", "a">>
    /\ cursor = 6

\* the notes of the ranking specification
Ranked2 == {1, 2}

Recorded(f) == HasRecord(usageStats, files[f].path)
CountOfNote(f) == usageStats[files[f].path].count
LastUsedOf(f) == usageStats[files[f].path].lastUsed
AgeUsed(f) == now - LastUsedOf(f)
AgeCreated(f) == now - files[f].ctime

\* the scores of the ranking pass, by position in the candidate list
PassScores == ScoresOf(Candidates(context.query, settings), settings)

\* the position of the title candidate of note f in the list s
PosIn(s, f) == CHOOSE k \in 1 .. Len(s) : s[k].file = f

\* the score of note f among the scores sc of the ranking pass
ScoreIn(sc, f) == sc[PosIn(Candidates(context.query, settings), f)]

\* C12: of two candidates of one ranking pass with the same lastUsed and the
\* same creation time, the one with the larger count has the strictly larger
\* score, for every valid value of the settings (recencyWeight from 0 to 100,
\* recency boost on or off).
C12_FrequencyOrder ==
    Suggested =>
        \A sc \in {PassScores} : \A f, g \in Ranked2 :
            (/\ Recorded(f) /\ Recorded(g)
             /\ LastUsedOf(f) = LastUsedOf(g)
             /\ AgeCreated(f) = AgeCreated(g)
             /\ CountOfNote(f) > CountOfNote(g))
                => RLess(ScoreIn(sc, g), ScoreIn(sc, f))

\* the decay period in ticks
DecayTicks == settings.decayDays * DayInMs

\* the decay factor the claim describes for note f
ExpectedDecay(f) ==
    IF ~Recorded(f) THEN <<1, 1>>
    ELSE IF AgeUsed(f) <= DecayTicks THEN <<1, 1>>
    ELSE IF AgeUsed(f) >= 2 * DecayTicks THEN <<1, 2>>
    ELSE Rat(3 * DecayTicks - AgeUsed(f), 2 * DecayTicks)

\* the score of note f before the decay factor is applied
PreDecay(f) ==
    LET cands == Candidates(context.query, settings)
        base == BaseScore(StatsOf([file |-> f]), MaxCountOf(cands), MaxRecencyOf(cands),
                          settings)
    IN  RMul(IF RLess(<<0, 1>>, base) THEN base ELSE <<1, 100>>, NewnessBoost(f, settings))

\* C13 (the candidate list of the ranking specification holds the title of
\* note 1, then that of note 2, so sc[f] is the score of note f): the decay
\* factor of every candidate is 1 when it was never selected or
\* was last used at most decayDays ago, falls linearly to 1/2 over the next
\* decayDays and stays 1/2 afterwards, so it lies in [1/2, 1] and the score is
\* never below half of what it is before the decay.
C13_DecayFloor ==
    Suggested =>
        \A sc \in {PassScores} : \A f \in Ranked2 :
            \A d \in {DecayFactor(StatsOf([file |-> f]), settings)}, pre \in {PreDecay(f)} :
                /\ d = ExpectedDecay(f)
                /\ RLeq(<<1, 2>>, d) /\ RLeq(d, <<1, 1>>)
                /\ sc[f] = RMul(pre, d)
                /\ RLeq(RMul(<<1, 2>>, pre), sc[f])

\* one note is half way down the decay and the other at its floor
C13_Witness ==
    /\ Suggested
    /\ Recorded(1) /\ Recorded(2)
    /\ DecayFactor(StatsOf([file |-> 1]), settings) = <<3, 4>>
    /\ DecayFactor(StatsOf([file |-> 2]), settings) = <<1, 2>>
    /\ AgeUsed(2) > 2 * DecayTicks

\* the newness period in ticks
NewnessTicks == settings.newnessBoostDays * DayInMs

\* C14: with newness boost on, the multiplier is 1 + strength at creation age
\* 0, 1 + strength / 2 half way through the period, exactly 1 at age
\* newnessBoostDays and later, and never larger for the older of two notes
\* (with the defaults 3/2 at age 0, 5/4 at 15 days, 1 from 30 days on); with
\* newness boost off it is 1 at every age.
C14_NewnessFades ==
    Suggested =>
        \A f \in Ranked2 : \A b \in {NewnessBoost(f, settings)} :
            IF settings.enableNewnessBoost
            THEN /\ AgeCreated(f) = 0 => b = RAdd(<<1, 1>>, settings.newnessBoostStrength)
                 /\ 2 * AgeCreated(f) = NewnessTicks =>
                        b = RAdd(<<1, 1>>, RMul(<<1, 2>>, settings.newnessBoostStrength))
                 /\ AgeCreated(f) >= NewnessTicks => b = <<1, 1>>
                 /\ \A g \in Ranked2 :
                        AgeCreated(f) <= AgeCreated(g) => RLeq(NewnessBoost(g, settings), b)
                 /\ settings = DEFAULT_SETTINGS =>
                        /\ AgeCreated(f) = 0 => b = <<3, 2>>
                        /\ AgeCreated(f) = 15 * DayInMs => b = <<5, 4>>
                        /\ AgeCreated(f) >= 30 * DayInMs => b = <<1, 1>>
            ELSE b = <<1, 1>>

\* under the defaults a note created 15 days ago has the multiplier 5/4 and a
\* note created 30 days ago the multiplier 1
C14_Witness ==
    /\ Suggested
    /\ settings = DEFAULT_SETTINGS
    /\ AgeCreated(1) = 15 * DayInMs
    /\ AgeCreated(2) = 30 * DayInMs
    /\ NewnessBoost(1, settings) = <<5, 4>>
    /\ NewnessBoost(2, settings) = <<1, 1>>

\* note f comes before note g in the returned list
Before(f, g) ==
    \E i, j \in 1 .. Len(suggestions) :
        i < j /\ suggestions[i].file = f /\ suggestions[j].file = g

\* C15: with recency boost on and recencyWeight > 0, of two candidates with the
\* same count and the same newness multiplier the one selected more recently
\* has the strictly higher score and is ranked first.
C15_RecentFirst ==
    Suggested =>
        \A sc \in {PassScores} : \A f, g \in Ranked2 :
            (/\ settings.enableRecencyBoost /\ settings.recencyWeight > 0
             /\ Recorded(f) /\ Recorded(g)
             /\ CountOfNote(f) = CountOfNote(g)
             /\ NewnessBoost(f, settings) = NewnessBoost(g, settings)
             /\ LastUsedOf(f) > LastUsedOf(g))
                => /\ RLess(ScoreIn(sc, g), ScoreIn(sc, f))
                   /\ Before(f, g)

\* both notes selected 10 times, the second 2 days ago and the first 200 days
\* ago, decayDays 90 and recencyWeight 30: the second note is ranked first
C15_Witness ==
    /\ Suggested
    /\ settings = DEFAULT_SETTINGS
    /\ Recorded(1) /\ Recorded(2)
    /\ CountOfNote(1) = 10 /\ CountOfNote(2) = 10
    /\ AgeUsed(1) = 200 * DayInMs /\ AgeUsed(2) = 2 * DayInMs
    /\ AgeCreated(1) = AgeCreated(2)
    /\ Before(2, 1)

\* C16: under the default settings a candidate selected 100 times is ranked
\* before a candidate selected 5 times in the same pass, whatever their
\* last-used and creation times.
C16_HundredBeforeFive ==
    (Suggested /\ settings = DEFAULT_SETTINGS) =>
        \A f, g \in Ranked2 :
            (/\ Recorded(f) /\ Recorded(g)
             /\ CountOfNote(f) = 100 /\ CountOfNote(g) = 5)
                => Before(f, g)

RECURSIVE InIndexOrder(_, _)
\* the matching candidates in index iteration order: for each entry the title
\* candidate of its note, then the alias candidates in field order
InIndexOrder(m, q) ==
    IF m = <<>> THEN <<>>
    ELSE TitleCandidate(m[1].file, q)
         \o (IF settings.includeAliases THEN AliasCandidates(m[1].file, q) ELSE <<>>)
         \o InIndexOrder(Tail(m), q)

\* the first n entries of the list s
FirstOf(s, n) == [i \in 1 .. (IF n < Len(s) THEN n ELSE Len(s)) |-> s[i]]

\* C17: with enableUsageRanking off, getSuggestions returns the first
\* maxSuggestions matching candidates in index iteration order, a list that
\* depends neither on the usage statistics nor on the recency, decay and
\* newness settings.
C17_UnrankedOrder ==
    (Suggested /\ ~settings.enableUsageRanking) =>
        suggestions = FirstOf(InIndexOrder(noteTitles, context.query),
                              settings.maxSuggestions)

\* the second note has the record with the larger count and yet follows the
\* first, under ranking settings other than the defaults
C17_Witness ==
    /\ Suggested
    /\ ~settings.enableUsageRanking
    /\ settings.recencyWeight = 100
    /\ HasRecord(usageStats, files[2].path)
    /\ ~HasRecord(usageStats, files[1].path)
    /\ Len(suggestions) = 2
    /\ suggestions[1].file = 1
    /\ suggestions[2].file = 2

\* the number a text of the form stands for, NaN for a text that is no numeral
Denoted(text) ==
    CASE text = <<"-", "1">> -> Num(<<-1, 1>>)
      [] text = <<"0">> -> Num(<<0, 1>>)
      [] text = <<"1", ".", "5">> -> Num(<<3, 2>>)
      [] text = <<"1", "0", "0", ".", "5">> -> Num(<<201, 2>>)
      [] OTHER -> NaN

NumericFields ==
    {"minTriggerLength", "maxSuggestions", "recencyWeight", "decayDays",
     "newnessBoostDays", "newnessBoostStrength"}

\* the documented range of a numeric setting, for the number v
InRange(field, v) ==
    IF field = "recencyWeight" THEN RLeq(<<0, 1>>, v) /\ RLeq(v, <<100, 1>>)
    ELSE IF field = "newnessBoostStrength" THEN RLeq(<<0, 1>>, v) /\ RLeq(v, <<2, 1>>)
    ELSE RLess(<<0, 1>>, v)

\* the value of an edit is not a number or is outside the range of its field
Refusable(field, text) ==
    IF Denoted(text).nan THEN TRUE ELSE ~InRange(field, Denoted(text).val)

RangesHold ==
    /\ settings.minTriggerLength > 0
    /\ settings.maxSuggestions > 0
    /\ settings.decayDays > 0
    /\ settings.newnessBoostDays > 0
    /\ settings.recencyWeight >= 0 /\ settings.recencyWeight <= 100
    /\ RLeq(<<0, 1>>, settings.newnessBoostStrength)
    /\ RLeq(settings.newnessBoostStrength, <<2, 1>>)

\* C18: after any sequence of edits of the settings form from the defaults the
\* settings are in their ranges (minTriggerLength, maxSuggestions, decayDays,
\* newnessBoostDays > 0, recencyWeight in [0, 100], newnessBoostStrength in
\* [0, 2]); and an edit of a numeric field whose value is not a number or is
\* outside the range leaves the settings as they were and calls no save.
C18_FormValidates ==
    /\ []RangesHold
    /\ [][IF lastEvent'.type = "edit"
          THEN IF lastEvent'.field \in NumericFields
               THEN IF Refusable(lastEvent'.field, lastEvent'.value)
                    THEN settings' = settings /\ saved' = "none"
                    ELSE TRUE
               ELSE TRUE
          ELSE TRUE]_vars

Loaded == lastEvent.type = "load"

\* the blob is the wrapper: it has a settings part or a usageStats part
IsWrapper(blob) == blob # NoData /\ DOMAIN blob \cap {"settings", "usageStats"} # {}

\* the settings fields a blob holds: those of its settings part for the
\* wrapper, its own for the flat settings of an early version, none otherwise
SettingsPart(blob) ==
    IF blob = NoData THEN [k \in {} |-> TRUE]
    ELSE IF IsWrapper(blob)
    THEN (IF "settings" \in DOMAIN blob THEN blob.settings ELSE [k \in {} |-> TRUE])
    ELSE blob

\* C19: for every persisted blob (none at all, the empty one, flat settings
\* without the wrapper, the wrapper with any subset of the settings fields)
\* loading completes, every settings field missing from the blob has its
\* default, every field present has its persisted value, and usage statistics
\* missing from the blob load as the empty map.
C19_LoadDefaults ==
    Loaded =>
        /\ \A k \in DOMAIN DEFAULT_SETTINGS :
              /\ k \in DOMAIN settings
              /\ settings[k] = IF k \in DOMAIN SettingsPart(persisted)
                               THEN SettingsPart(persisted)[k]
                               ELSE DEFAULT_SETTINGS[k]
        /\ IF IsWrapper(persisted) /\ "usageStats" \in DOMAIN persisted
           THEN usageStats = persisted.usageStats
           ELSE DOMAIN usageStats = {}

\* flat settings of an early version with two falsy fields: both are kept, the
\* other fields have their defaults and the usage statistics are empty
C19_Witness ==
    /\ Loaded
    /\ persisted = [includeAliases |-> FALSE, recencyWeight |-> 0]
    /\ settings = [DEFAULT_SETTINGS EXCEPT !.includeAliases = FALSE, !.recencyWeight = 0]
    /\ DOMAIN usageStats = {}

\* C20: when the write issued by a selection, by the rename handler of the
\* usage statistics or by the delete handler fails, the operation has still
\* completed with the usage statistics updated in memory, the failure is
\* logged, and no rejection is left unhandled.
C20_SaveFailureSwallowed ==
    [][saved' = "failed" =>
          /\ IF lastEvent'.type = "select"
             THEN /\ HasRecord(usageStats', lastEvent'.path)
                  /\ usageStats'[lastEvent'.path].count
                        = CountOf(usageStats, lastEvent'.path) + 1
             ELSE IF lastEvent'.type = "rename"
             THEN /\ HasRecord(usageStats', lastEvent'.path)
                  /\ ~HasRecord(usageStats', lastEvent'.oldPath)
             ELSE ~HasRecord(usageStats', lastEvent'.path)
          /\ Len(console') > Len(console)
          /\ ~unhandled']_vars

\* C21: a create or rename notification for a file that is not a note (its
\* extension is not md, or it is a folder) leaves the index as it was.
C21_NonNoteIgnored ==
    [][(lastEvent'.type \in {"create", "rename"} /\ lastEvent'.path.ext # "md")
          => noteTitles' = noteTitles]_vars

\* a note was renamed to a text file and the index still holds its old path
C21_Witness ==
    /\ lastEvent.type = "rename"
    /\ lastEvent.path.ext = "txt"
    /\ lastEvent.oldPath.ext = "md"
    /\ Keys(noteTitles) = {lastEvent.oldPath}

\* the callback has returned a trigger
Triggered == lastEvent.type = "trigger" /\ context # NoContext

\* C22: a trigger returned for the cursor has 0 <= start <= end = cursor
\* column, its query is the text of the line from start to end, holds no
\* whitespace and has at least minTriggerLength characters, and start is 0 or
\* follows a whitespace character; and the scan to the left comes to an end on
\* every line and at every column.
C22_TriggerSpan ==
    /\ [](Triggered =>
            /\ 0 <= context.start /\ context.start <= context.end
            /\ context.end = cursor
            /\ context.query = SubSeq(line, context.start + 1, context.end)
            /\ \A i \in 1 .. Len(context.query) : context.query[i] # " "
            /\ Len(context.query) >= settings.minTriggerLength
            /\ (context.start = 0 \/ line[context.start] = " "))
    /\ <>(lastEvent.type = "trigger")

\* the token that follows a closed link and a space
C22_Witness ==
    /\ Triggered
    /\ line = <<"]", "]", " ", "a">>
    /\ cursor = 4
    /\ context.start = 3
    /\ context.query = <<"a">>

\* the records of the two usage statistics agree except under path p
SameExcept(us1, us2, p) ==
    \A q \in (DOMAIN us1 \cup DOMAIN us2) \ {p} :
        IF q \in DOMAIN us1 /\ q \in DOMAIN us2 THEN us1[q] = us2[q] ELSE FALSE

\* C23: the usage statistics are written only by a selection made with
\* enableUsageRanking on, by a rename notification and by a delete
\* notification: onTrigger, getSuggestions, an edit of the settings, a create
\* notification and a selection made with enableUsageRanking off leave every
\* record as it was, and a selection made with ranking on changes the record
\* of the selected candidate's target only.
C23_WritePaths ==
    [][/\ IF lastEvent'.type \in {"trigger", "suggest", "edit", "create"}
          THEN usageStats' = usageStats ELSE TRUE
       /\ IF lastEvent'.type = "select"
          THEN IF settings.enableUsageRanking
               THEN SameExcept(usageStats, usageStats', lastEvent'.path)
               ELSE usageStats' = usageStats
          ELSE TRUE
       /\ IF usageStats' # usageStats
          THEN lastEvent'.type \in {"select", "rename", "delete"} ELSE TRUE]_vars

\* a selection made with ranking off has inserted the link and left the record
\* of its target at one selection
C23_Witness ==
    /\ lastEvent.type = "select"
    /\ ~settings.enableUsageRanking
    /\ line = <<"[", "[", "a", "b", "]", "]">>
    /\ HasRecord(usageStats, lastEvent.path)
    /\ usageStats[lastEvent.path] = [count |-> 1, lastUsed |-> 1]
    /\ now > MaxEdits

\* the newness multiplier the claim describes for note f
ExpectedNewness(f) ==
    IF settings.enableNewnessBoost /\ AgeCreated(f) <= NewnessTicks
    THEN RAdd(<<1, 1>>,
              RMul(RSub(<<1, 1>>, Rat(AgeCreated(f), NewnessTicks)),
                   settings.newnessBoostStrength))
    ELSE <<1, 1>>

\* the score of a note that was never selected is 1/100 times its newness
\* multiplier, and under the defaults 3/200 for a note created today and 1/100
\* for a note created 40 days ago
NeverUsedScores(sc) ==
    \A f \in Ranked2 :
        ~Recorded(f) =>
            /\ ScoreIn(sc, f) = RMul(<<1, 100>>, ExpectedNewness(f))
            /\ settings = DEFAULT_SETTINGS =>
                  /\ AgeCreated(f) = 0 => ScoreIn(sc, f) = <<3, 200>>
                  /\ AgeCreated(f) = 40 * DayInMs => ScoreIn(sc, f) = <<1, 100>>

\* C24 as stated: a candidate that was never selected scores 0.01 times its
\* newness multiplier (0.015 created today, 0.01 created 40 days ago, with
\* newnessBoostDays 30 and strength 0.5), and with newness boost on a
\* never-selected note inside the newness window (created at most
\* newnessBoostDays ago) scores strictly higher than, and is ranked before, a
\* never-selected note outside it.
C24_NewBeforeOld ==
    Suggested =>
        \A sc \in {PassScores} :
            /\ NeverUsedScores(sc)
            /\ \A f, g \in Ranked2 :
                  (/\ settings.enableNewnessBoost
                   /\ ~Recorded(f) /\ ~Recorded(g)
                   /\ AgeCreated(f) <= NewnessTicks
                   /\ AgeCreated(g) > NewnessTicks)
                      => /\ RLess(ScoreIn(sc, g), ScoreIn(sc, f))
                         /\ Before(f, g)

\* C24 as amended: the same scores, and with newness boost on and a strength
\* above 0 a never-selected note created less than newnessBoostDays ago
\* scores strictly higher than, and is ranked before, a never-selected note
\* created newnessBoostDays ago or earlier.
C24_NewBeforeOldAmended ==
    Suggested =>
        \A sc \in {PassScores} :
            /\ NeverUsedScores(sc)
            /\ \A f, g \in Ranked2 :
                  (/\ settings.enableNewnessBoost
                   /\ RLess(<<0, 1>>, settings.newnessBoostStrength)
                   /\ ~Recorded(f) /\ ~Recorded(g)
                   /\ AgeCreated(f) < NewnessTicks
                   /\ AgeCreated(g) >= NewnessTicks)
                      => /\ RLess(ScoreIn(sc, g), ScoreIn(sc, f))
                         /\ Before(f, g)

\* under the defaults the never-selected note created today is ranked before
\* the never-selected note created 40 days ago, which comes first in the index
C24_Witness ==
    /\ Suggested
    /\ settings = DEFAULT_SETTINGS
    /\ ~Recorded(1) /\ ~Recorded(2)
    /\ AgeCreated(1) = 40 * DayInMs
    /\ AgeCreated(2) = 0
    /\ PassScores = <<(<<1, 100>>), (<<3, 200>>)>>
    /\ Before(2, 1)

\* no candidate for the query q has the note at path p as its target
\* the usage records of the candidates cands, the records of every other note
\* left out
CandidateRecords(cands) ==
    [p \in {files[cands[i].file].path : i \in 1 .. Len(cands)} \cap DOMAIN usageStats |->
        usageStats[p]]

\* the largest count and the largest recency value among the records us
LargestCount(us) ==
    IF DOMAIN us = {} THEN 0
    ELSE CHOOSE n \in {us[p].count : p \in DOMAIN us} :
            \A p \in DOMAIN us : us[p].count <= n

LargestRecency(us) ==
    LET used == {RecencyValue(us[p]) : p \in {r \in DOMAIN us : us[r].lastUsed > 0}}
    IN  IF used = {} THEN RInt(0)
        ELSE CHOOSE v \in used : \A w \in used : RLeq(w, v)

\* the scores of the candidates cands computed from the records us alone
ScoresFrom(cands, us) ==
    [i \in 1 .. Len(cands) |->
        calculateScore(IF files[cands[i].file].path \in DOMAIN us
                       THEN us[files[cands[i].file].path] ELSE Undefined,
                       cands[i].file, LargestCount(us), LargestRecency(us), settings)]

\* the normalised scores of the pass lie in [0, 1], and when a candidate was
\* selected the candidates with the largest count have frequency score 1
Normalised ==
    \A cands \in {Candidates(context.query, settings)} :
        \A maxCount \in {MaxCountOf(cands)}, maxRecency \in {MaxRecencyOf(cands)} :
            \A i \in 1 .. Len(cands) :
                \A fs \in {FrequencyScore(StatsOf(cands[i]), maxCount)},
                   rs \in {RecencyScore(StatsOf(cands[i]), maxRecency, settings)} :
                    /\ RLeq(<<0, 1>>, fs) /\ RLeq(fs, <<1, 1>>)
                    /\ RLeq(<<0, 1>>, rs) /\ RLeq(rs, <<1, 1>>)
                    /\ (/\ HasStats(StatsOf(cands[i]))
                        /\ StatsOf(cands[i]).count >= 1
                        /\ \A j \in 1 .. Len(cands) :
                              HasStats(StatsOf(cands[j]))
                                  => StatsOf(cands[j]).count <= StatsOf(cands[i]).count)
                           => fs = <<1, 1>>

\* C25: the maxima of a ranking pass are taken over the candidates of its
\* query: for every query the scores that order the result are the scores
\* computed from the usage records of the candidates alone, so that the record
\* of a note that yields no candidate, whether added, changed or removed, has
\* no part in the order or the content of the result; and in every pass every
\* frequency score and recency score lies in [0, 1] and, when some candidate
\* was selected, the candidate with the largest count has frequency score
\* exactly 1.
C25_CandidateMaxima ==
    /\ (Suggested /\ settings.enableUsageRanking) => Normalised
    /\ \A q \in ThreeQueries :
          \A cands \in {Candidates(q, settings)} :
              /\ ScoresOf(cands, settings) = ScoresFrom(cands, CandidateRecords(cands))
              /\ getSuggestions(q, settings)
                    = Slice(SortByScore(cands, settings), settings.maxSuggestions)

\* the third note, selected three times and the last to be used, was deleted,
\* and the two candidates for ab, selected twice and once, are ranked as before
C25_Witness ==
    /\ lastEvent.type = "delete"
    /\ lastEvent.path.base = ThreeTitles[3]
    /\ settings.enableRecencyBoost
    /\ HasRecord(usageStats, NotePath(ThreeTitles[1]))
    /\ HasRecord(usageStats, NotePath(ThreeTitles[2]))
    /\ usageStats[NotePath(ThreeTitles[1])].count = 2
    /\ usageStats[NotePath(ThreeTitles[2])].count = 1
    /\ persisted.usageStats = usageStats
    /\ getSuggestions(<<"a", "b">>, settings)
          = <<[title |-> ThreeTitles[1], file |-> 1], [title |-> ThreeTitles[2], file |-> 2]>>

\* the score of the suggestion sug among the scores sc of the candidates cands
ScoreOfSug(cands, sc, sug) == sc[CHOOSE i \in 1 .. Len(cands) : cands[i] = sug]

\* the entries of the list s that have the score v
WithScore(cands, sc, s, v) == SelectSeq(s, LAMBDA sug : ScoreOfSug(cands, sc, sug) = v)

IsPrefix(s, t) == Len(s) <= Len(t) /\ s = SubSeq(t, 1, Len(s))

\* C26: with usage ranking enabled the result is in descending order of score,
\* and the candidates of one score are in the result in the order in which
\* the matcher produced them.
C26_StableDescending ==
    (Suggested /\ settings.enableUsageRanking) =>
        \A cands \in {Candidates(context.query, settings)} : \A sc \in {PassScores} :
            /\ \A k, l \in 1 .. Len(suggestions) :
                  k < l => RLeq(ScoreOfSug(cands, sc, suggestions[l]),
                                ScoreOfSug(cands, sc, suggestions[k]))
            /\ \A i \in 1 .. Len(cands) :
                  IsPrefix(WithScore(cands, sc, suggestions, sc[i]),
                           WithScore(cands, sc, cands, sc[i]))

\* a pass whose result is not in the matcher's order, and holds two different
\* candidates of one score
C26_Witness ==
    /\ Suggested
    /\ settings.enableUsageRanking
    /\ suggestions # Slice(Candidates(context.query, settings), settings.maxSuggestions)
    /\ \E k, l \in 1 .. Len(suggestions) :
          /\ k < l
          /\ suggestions[k] # suggestions[l]
          /\ \A cands \in {Candidates(context.query, settings)} : \A sc \in {PassScores} :
                ScoreOfSug(cands, sc, suggestions[k]) = ScoreOfSug(cands, sc, suggestions[l])

\* a usage record as trackNoteSelection writes it
WellFormed(stats) ==
    /\ DOMAIN stats = {"count", "lastUsed"}
    /\ stats.count # NotANumber
    /\ stats.count >= 1
    /\ stats.lastUsed > 0

\* the well-formed usage records of the candidates cands
SoundRecords(cands) ==
    [p \in {r \in DOMAIN CandidateRecords(cands) : WellFormed(usageStats[r])} |->
        usageStats[p]]

\* the candidates of cands whose record is absent or well-formed
Sound(cands) ==
    {i \in 1 .. Len(cands) : ~HasStats(StatsOf(cands[i])) \/ WellFormed(StatsOf(cands[i]))}

\* C27: a usage record with the count or the lastUsed field missing counts as
\* an absent record: in every ranking the candidates with a sound record
\* compare as they do when the damaged record does not exist, a selection of
\* the note leaves a well-formed record, and no operation raises an error.
C27_CorruptedAsAbsent ==
    /\ \A q \in ThreeQueries :
          \A cands \in {Candidates(q, settings)} :
              \A sc \in {ScoresOf(cands, settings)},
                 ex \in {ScoresFrom(cands, SoundRecords(cands))} :
                  \A i, j \in Sound(cands) : RLess(sc[i], sc[j]) <=> RLess(ex[i], ex[j])
    /\ lastEvent.type = "select" => WellFormed(usageStats[lastEvent.path])
    /\ ~unhandled

\* the path whose usage record the rename or delete of the step looks up
LookedUp(e) == IF e.type = "rename" THEN e.oldPath ELSE e.path

\* C28: a step that changes the usage statistics (a recorded selection, a
\* rename that moves a record, a delete that removes one) writes the changed
\* statistics; a rename or a delete for a path without a record changes
\* nothing and writes nothing; and, no write failing, the persisted
\* statistics equal the statistics in memory once the writes are done.
C28_WriteAfterChange ==
    /\ [](persisted.usageStats = usageStats)
    /\ [][/\ IF usageStats' # usageStats
             THEN saved' = "ok" /\ persisted'.usageStats = usageStats'
             ELSE TRUE
          /\ IF now' = now /\ lastEvent'.type = "select"
             THEN usageStats' # usageStats
             ELSE TRUE
          /\ IF now' = now /\ lastEvent'.type \in {"rename", "delete"}
             THEN IF HasRecord(usageStats, LookedUp(lastEvent'))
                  THEN usageStats' # usageStats
                  ELSE /\ usageStats' = usageStats
                       /\ saved' = "none"
                       /\ persisted' = persisted
             ELSE TRUE]_vars

\* the note ab.md was selected and then renamed to ba.md: its record moved and
\* the moved statistics were written
C28_Witness ==
    /\ lastEvent.type = "rename"
    /\ lastEvent.oldPath = NotePath(<<"a", "b">>)
    /\ lastEvent.path = NotePath(<<"b", "a">>)
    /\ HasRecord(usageStats, lastEvent.path)
    /\ ~HasRecord(usageStats, lastEvent.oldPath)
    /\ saved = "ok"
    /\ persisted.usageStats = usageStats

\* C29: every path that has a usage record has an entry in the title index.
C29_RecordsIndexed ==
    \A p \in DOMAIN usageStats : HasKey(noteTitles, p)

\* the record stats is of a note selected at least once, last within the
\* decay threshold
UsedOfLate(stats) ==
    /\ HasStats(stats)
    /\ stats.count >= 1
    /\ WasUsed(stats)
    /\ now - stats.lastUsed <= settings.decayDays * DayInMs

\* C30: with the recency boost and the newness boost disabled, in every
\* ranking pass a candidate selected at least once and within the decay
\* threshold scores at least as high as every candidate never selected.
C30_UsedAboveUnused ==
    (~settings.enableRecencyBoost /\ ~settings.enableNewnessBoost) =>
        \A q \in ThreeQueries :
            \A cands \in {Candidates(q, settings)} : \A sc \in {ScoresOf(cands, settings)} :
                \A i, j \in 1 .. Len(cands) :
                    (UsedOfLate(StatsOf(cands[i])) /\ ~HasStats(StatsOf(cands[j])))
                        => RLeq(sc[j], sc[i])

====
